---------------------------- MODULE Spec2Model ----------------------------
(***************************************************************************)
(* A model of zendro-bulk-create (src/index.js): the query compiler        *)
(* generateQueries, the error correlator responseParser, and the two      *)
(* import drivers csvProcessing and jsonProcessing.                        *)
(*                                                                         *)
(* Text is modelled as a sequence of one-character strings, so that the    *)
(* compiled document, its lines and the re-parsing done by responseParser  *)
(* are computed character by character, as the JavaScript does.            *)
(***************************************************************************)
EXTENDS Integers, Sequences, FiniteSets, TLC

(***************************************************************************)
(* Characters and text helpers (JavaScript String primitives).             *)
(***************************************************************************)
NL == "\n"
QT == "\""
BS == "\\"
SP == " "
TAB == "\t"
CR == "\r"
FF == "\f"

\* The characters U+0000 .. U+00FF by code. A character that cannot be
\* written in a string here (a control character without an escape, the
\* grave accent, a character above U+007E) is written by its name, "U+0008"
\* for backspace.
CharTable ==
  <<"U+0000", "U+0001", "U+0002", "U+0003", "U+0004", "U+0005", "U+0006", "U+0007",
     "U+0008", TAB, NL, "U+000B", FF, CR, "U+000E", "U+000F",
     "U+0010", "U+0011", "U+0012", "U+0013", "U+0014", "U+0015", "U+0016", "U+0017",
     "U+0018", "U+0019", "U+001A", "U+001B", "U+001C", "U+001D", "U+001E", "U+001F",
     SP, "!", QT, "#", "$", "%", "&", "'",
     "(", ")", "*", "+", ",", "-", ".", "/",
     "0", "1", "2", "3", "4", "5", "6", "7",
     "8", "9", ":", ";", "<", "=", ">", "?",
     "@", "A", "B", "C", "D", "E", "F", "G",
     "H", "I", "J", "K", "L", "M", "N", "O",
     "P", "Q", "R", "S", "T", "U", "V", "W",
     "X", "Y", "Z", "[", BS, "]", "^", "_",
     "U+0060", "a", "b", "c", "d", "e", "f", "g",
     "h", "i", "j", "k", "l", "m", "n", "o",
     "p", "q", "r", "s", "t", "u", "v", "w",
     "x", "y", "z", "{", "|", "}", "~", "U+007F",
     "U+0080", "U+0081", "U+0082", "U+0083", "U+0084", "U+0085", "U+0086", "U+0087",
     "U+0088", "U+0089", "U+008A", "U+008B", "U+008C", "U+008D", "U+008E", "U+008F",
     "U+0090", "U+0091", "U+0092", "U+0093", "U+0094", "U+0095", "U+0096", "U+0097",
     "U+0098", "U+0099", "U+009A", "U+009B", "U+009C", "U+009D", "U+009E", "U+009F",
     "U+00A0", "U+00A1", "U+00A2", "U+00A3", "U+00A4", "U+00A5", "U+00A6", "U+00A7",
     "U+00A8", "U+00A9", "U+00AA", "U+00AB", "U+00AC", "U+00AD", "U+00AE", "U+00AF",
     "U+00B0", "U+00B1", "U+00B2", "U+00B3", "U+00B4", "U+00B5", "U+00B6", "U+00B7",
     "U+00B8", "U+00B9", "U+00BA", "U+00BB", "U+00BC", "U+00BD", "U+00BE", "U+00BF",
     "U+00C0", "U+00C1", "U+00C2", "U+00C3", "U+00C4", "U+00C5", "U+00C6", "U+00C7",
     "U+00C8", "U+00C9", "U+00CA", "U+00CB", "U+00CC", "U+00CD", "U+00CE", "U+00CF",
     "U+00D0", "U+00D1", "U+00D2", "U+00D3", "U+00D4", "U+00D5", "U+00D6", "U+00D7",
     "U+00D8", "U+00D9", "U+00DA", "U+00DB", "U+00DC", "U+00DD", "U+00DE", "U+00DF",
     "U+00E0", "U+00E1", "U+00E2", "U+00E3", "U+00E4", "U+00E5", "U+00E6", "U+00E7",
     "U+00E8", "U+00E9", "U+00EA", "U+00EB", "U+00EC", "U+00ED", "U+00EE", "U+00EF",
     "U+00F0", "U+00F1", "U+00F2", "U+00F3", "U+00F4", "U+00F5", "U+00F6", "U+00F7",
     "U+00F8", "U+00F9", "U+00FA", "U+00FB", "U+00FC", "U+00FD", "U+00FE", "U+00FF">>

BSP == CharTable[9]

\* String.fromCharCode(n); the code points above U+00FF lie outside the
\* alphabet of the model and are all written "U+????".
CharOfCode(n) == IF n < 256 THEN CharTable[n + 1] ELSE "U+????"

\* The control characters U+0000 .. U+001F.
ControlChars == {CharTable[i] : i \in 1..32}

CodeOfControl(c) == CHOOSE n \in 0..31 : CharTable[n + 1] = c

HexDigits ==
  <<"0", "1", "2", "3", "4", "5", "6", "7", "8", "9", "a", "b", "c", "d", "e", "f">>

UpperHexDigits ==
  <<"0", "1", "2", "3", "4", "5", "6", "7", "8", "9", "A", "B", "C", "D", "E", "F">>

IsHexDigit(c) == \E i \in 1..16 : HexDigits[i] = c \/ UpperHexDigits[i] = c

HexValue(c) == (CHOOSE i \in 1..16 : HexDigits[i] = c \/ UpperHexDigits[i] = c) - 1

Digits == <<"0", "1", "2", "3", "4", "5", "6", "7", "8", "9">>

IsDigit(c) == \E i \in 1..10 : Digits[i] = c

\* Number -> decimal text, as a template literal `${n}` prints a non-negative integer.
RECURSIVE NumToText(_)
NumToText(n) ==
  IF n < 10 THEN <<Digits[n + 1]>>
  ELSE NumToText(n \div 10) \o <<Digits[(n % 10) + 1]>>

\* s.startsWith(p)
StartsWith(s, p) ==
  /\ Len(p) <= Len(s)
  /\ SubSeq(s, 1, Len(p)) = p

\* The least element of a set of numbers, 0 for the empty set.
MinOrZero(S) == IF S = {} THEN 0 ELSE CHOOSE i \in S : \A j \in S : i <= j

\* The greatest element of a set of numbers, 0 for the empty set.
MaxOrZero(S) == IF S = {} THEN 0 ELSE CHOOSE i \in S : \A j \in S : j <= i

\* s.indexOf(p), 1-based; 0 when p does not occur.
IndexOf(s, p) ==
  MinOrZero({i \in 1..(Len(s) - Len(p) + 1) : SubSeq(s, i, i + Len(p) - 1) = p})

\* s.includes(p)
Includes(s, p) == IndexOf(s, p) # 0

\* s.split(sep) for a non-empty separator: the array of the parts.
RECURSIVE Split(_, _)
SplitAt(s, sep, i) ==
  IF i = 0 THEN <<s>>
  ELSE <<SubSeq(s, 1, i - 1)>> \o Split(SubSeq(s, i + Len(sep), Len(s)), sep)

Split(s, sep) == SplitAt(s, sep, IndexOf(s, sep))

\* array.join(sep), which is also what `${array}` prints with sep = ","
RECURSIVE Join(_, _)
Join(parts, sep) ==
  IF Len(parts) = 0 THEN <<>>
  ELSE IF Len(parts) = 1 THEN parts[1]
  ELSE parts[1] \o sep \o Join(Tail(parts), sep)

\* s.slice(0, s.length - 1): drops the last character, whatever it is.
DropLast(s) == IF Len(s) = 0 THEN <<>> ELSE SubSeq(s, 1, Len(s) - 1)

\* c.toUpperCase(), on the letters the model uses.
UpperChar(c) ==
  CASE c = "a" -> "A"
    [] c = "b" -> "B"
    [] c = "c" -> "C"
    [] c = "m" -> "M"
    [] c = "r" -> "R"
    [] c = "s" -> "S"
    [] c = "t" -> "T"
    [] OTHER   -> c

\* s.slice(0, 1).toUpperCase() + s.slice(1)
Capitalize(s) == IF Len(s) = 0 THEN <<>> ELSE <<UpperChar(s[1])>> \o Tail(s)

(***************************************************************************)
(* JSON.stringify and JSON.parse.                                          *)
(*                                                                         *)
(* A parsed JSON value is represented by its canonical JSON text (what     *)
(* JSON.stringify prints for it): two scalar or list values are deep-equal *)
(* exactly when their canonical texts are equal.                           *)
(***************************************************************************)
EscapeChar(c) ==
  CASE c = QT  -> <<BS, QT>>
    [] c = BS  -> <<BS, BS>>
    [] c = NL  -> <<BS, "n">>
    [] c = TAB -> <<BS, "t">>
    [] c = CR  -> <<BS, "r">>
    [] c = FF  -> <<BS, "f">>
    [] c = BSP -> <<BS, "b">>
    [] OTHER   -> IF c \in ControlChars
                  THEN <<BS, "u", "0", "0", HexDigits[(CodeOfControl(c) \div 16) + 1],
                         HexDigits[(CodeOfControl(c) % 16) + 1]>>
                  ELSE <<c>>

RECURSIVE EscapeText(_)
EscapeText(s) ==
  IF Len(s) = 0 THEN <<>> ELSE EscapeChar(Head(s)) \o EscapeText(Tail(s))

\* JSON.stringify of a string: quote, and escape quote, backslash and the
\* control characters.
JSONstringifyString(s) == <<QT>> \o EscapeText(s) \o <<QT>>

IsJsonSpace(c) == c = SP \/ c = NL \/ c = TAB \/ c = CR

\* Leading and trailing JSON whitespace removed.
RECURSIVE TrimLeft(_)
TrimLeft(s) ==
  IF Len(s) > 0 /\ IsJsonSpace(s[1]) THEN TrimLeft(Tail(s)) ELSE s

RECURSIVE TrimRight(_)
TrimRight(s) ==
  IF Len(s) > 0 /\ IsJsonSpace(s[Len(s)]) THEN TrimRight(DropLast(s)) ELSE s

Trim(s) == TrimRight(TrimLeft(s))

\* The character a two-character escape sequence \e stands for, <<>> for
\* an unknown one.
EscapedChar(e) ==
  CASE e = QT  -> <<QT>>
    [] e = BS  -> <<BS>>
    [] e = "/" -> <<"/">>
    [] e = "b" -> <<BSP>>
    [] e = "f" -> <<FF>>
    [] e = "n" -> <<NL>>
    [] e = "r" -> <<CR>>
    [] e = "t" -> <<TAB>>
    [] OTHER   -> <<>>

\* The character \uXXXX stands for, s[i] being the first hex digit.
UnicodeEscape(s, i) ==
  CharOfCode(4096 * HexValue(s[i]) + 256 * HexValue(s[i + 1]) + 16 * HexValue(s[i + 2])
               + HexValue(s[i + 3]))

\* The body of a JSON string literal (between the quotes), decoded from
\* position i on: [ok, text]. A raw quote, a raw control character or a
\* dangling, unknown or incomplete escape makes the literal invalid.
RECURSIVE UnescapeFrom(_, _, _)
UnescapeFrom(s, i, acc) ==
  IF i > Len(s) THEN [ok |-> TRUE, text |-> acc]
  ELSE IF s[i] = QT \/ s[i] \in ControlChars THEN [ok |-> FALSE, text |-> <<>>]
  ELSE IF s[i] = BS
  THEN IF i + 1 > Len(s) THEN [ok |-> FALSE, text |-> <<>>]
       ELSE IF s[i + 1] = "u"
       THEN IF i + 5 <= Len(s) /\ \A j \in (i + 2)..(i + 5) : IsHexDigit(s[j])
            THEN UnescapeFrom(s, i + 6, Append(acc, UnicodeEscape(s, i + 2)))
            ELSE [ok |-> FALSE, text |-> <<>>]
       ELSE IF EscapedChar(s[i + 1]) = <<>> THEN [ok |-> FALSE, text |-> <<>>]
       ELSE UnescapeFrom(s, i + 2, acc \o EscapedChar(s[i + 1]))
  ELSE UnescapeFrom(s, i + 1, Append(acc, s[i]))

UnescapeText(s) == UnescapeFrom(s, 1, <<>>)

\* A JSON number of the model's alphabet: 0 | [1-9][0-9]*
IsJsonNumber(s) ==
  /\ Len(s) > 0
  /\ \A i \in 1..Len(s) : IsDigit(s[i])
  /\ (Len(s) > 1 => s[1] # "0")

IsJsonLiteral(s) ==
  \/ s = <<"t", "r", "u", "e">>
  \/ s = <<"f", "a", "l", "s", "e">>
  \/ s = <<"n", "u", "l", "l">>

\* What JSON.parse gives: [ok, canon, isString, text], text being the
\* decoded string when the value is a string; ok = FALSE: a SyntaxError.
BadJson == [ok |-> FALSE, canon |-> <<>>, isString |-> FALSE, text |-> <<>>]

StringJson(r) ==
  IF r.ok
  THEN [ok |-> TRUE, canon |-> JSONstringifyString(r.text), isString |-> TRUE, text |-> r.text]
  ELSE BadJson

\* JSON.parse of a scalar token without surrounding whitespace.
ParseTrimmedScalar(s) ==
  IF Len(s) >= 2 /\ s[1] = QT /\ s[Len(s)] = QT
  THEN StringJson(UnescapeText(SubSeq(s, 2, Len(s) - 1)))
  ELSE IF IsJsonNumber(s) \/ IsJsonLiteral(s)
  THEN [ok |-> TRUE, canon |-> s, isString |-> FALSE, text |-> <<>>]
  ELSE BadJson

ParseScalar(tok) == ParseTrimmedScalar(Trim(tok))

\* The positions of the commas of s that lie outside string literals.
RECURSIVE TopCommas(_, _, _)
TopCommas(s, i, inStr) ==
  IF i > Len(s) THEN {}
  ELSE IF inStr /\ s[i] = BS THEN TopCommas(s, i + 2, inStr)
  ELSE IF s[i] = QT THEN TopCommas(s, i + 1, ~inStr)
  ELSE IF s[i] = "," /\ ~inStr THEN {i} \cup TopCommas(s, i + 1, inStr)
  ELSE TopCommas(s, i + 1, inStr)

\* s from position from on, cut at the given positions, the cut characters dropped.
RECURSIVE CutAt(_, _, _)
CutAtFirst(s, from, cuts, c) ==
  <<SubSeq(s, from, c - 1)>> \o CutAt(s, c + 1, cuts \ {c})

CutAt(s, from, cuts) ==
  IF cuts = {} THEN <<SubSeq(s, from, Len(s))>>
  ELSE CutAtFirst(s, from, cuts, MinOrZero(cuts))

ListJson(parsed) ==
  IF \A i \in 1..Len(parsed) : parsed[i].ok
  THEN [ok |-> TRUE,
        canon |-> <<"[">> \o Join([i \in 1..Len(parsed) |-> parsed[i].canon], <<",">>) \o <<"]">>,
        isString |-> FALSE, text |-> <<>>]
  ELSE BadJson

ParseElements(elems) == ListJson([i \in 1..Len(elems) |-> ParseScalar(elems[i])])

\* JSON.parse of the inside of a flat list.
ParseList(inner) ==
  IF Trim(inner) = <<>>
  THEN [ok |-> TRUE, canon |-> <<"[", "]">>, isString |-> FALSE, text |-> <<>>]
  ELSE ParseElements(CutAt(inner, 1, TopCommas(inner, 1, FALSE)))

ParseTrimmed(s) ==
  IF Len(s) >= 2 /\ s[1] = "[" /\ s[Len(s)] = "]"
  THEN ParseList(SubSeq(s, 2, Len(s) - 1))
  ELSE ParseTrimmedScalar(s)

\* JSON.parse(text), for scalars and flat lists of scalars (objects and
\* nested lists lie outside the model's alphabet).
JSONparse(tok) == ParseTrimmed(Trim(tok))

(***************************************************************************)
(* Values, types and the data model definition.                            *)
(*                                                                         *)
(* A raw field value is [k, v]: k is the JavaScript type of the value      *)
(* ("str" on the CSV path; "num" or "bool" are native JSON values of the   *)
(* in-memory path) and v is the text String(value) prints.                 *)
(***************************************************************************)
Str(v)  == [k |-> "str", v |-> v]
Num(v)  == [k |-> "num", v |-> v]
Bool(v) == [k |-> "bool", v |-> v]

\* undefined (a missing map entry): no text, so not the empty text either;
\* written as the one-element sequence of its typeof.
Undefined == <<"undefined">>

\* !x for a text or undefined: undefined and the empty text are falsy.
IsFalsy(x) == x = Undefined \/ x = <<>>

T_String     == <<"S", "t", "r", "i", "n", "g">>
T_Int        == <<"I", "n", "t">>
T_Float      == <<"F", "l", "o", "a", "t">>
T_Boolean    == <<"B", "o", "o", "l", "e", "a", "n">>
T_ListString == <<"[">> \o T_String \o <<"]">>
T_ListInt    == <<"[">> \o T_Int \o <<"]">>

non_string_types == {T_Int, T_Float, T_Boolean}

\* The property names every plain object inherits from Object.prototype.
ToStringName == <<"t", "o", "S", "t", "r", "i", "n", "g">>

ProtoName == <<"_", "_", "p", "r", "o", "t", "o", "_", "_">>

ConstructorName == <<"c", "o", "n", "s", "t", "r", "u", "c", "t", "o", "r">>

ObjectPrototypeNames ==
  { <<"_", "_", "d", "e", "f", "i", "n", "e", "G", "e", "t", "t", "e", "r", "_", "_">>,
    <<"_", "_", "d", "e", "f", "i", "n", "e", "S", "e", "t", "t", "e", "r", "_", "_">>,
    <<"h", "a", "s", "O", "w", "n", "P", "r", "o", "p", "e", "r", "t", "y">>,
    <<"_", "_", "l", "o", "o", "k", "u", "p", "G", "e", "t", "t", "e", "r", "_", "_">>,
    <<"_", "_", "l", "o", "o", "k", "u", "p", "S", "e", "t", "t", "e", "r", "_", "_">>,
    <<"i", "s", "P", "r", "o", "t", "o", "t", "y", "p", "e", "O", "f">>,
    <<"p", "r", "o", "p", "e", "r", "t", "y", "I", "s", "E", "n", "u", "m", "e", "r", "a", "b", "l", "e">>,
    <<"v", "a", "l", "u", "e", "O", "f">>,
    <<"t", "o", "L", "o", "c", "a", "l", "e", "S", "t", "r", "i", "n", "g">>,
    ToStringName, ProtoName, ConstructorName }

\* typeof Object.prototype[name]: __proto__ is the prototype object itself,
\* the constructor is Object and the others are methods.
TypeofInherited(name) == IF name = ProtoName THEN "object" ELSE "function"

\* String(Object.prototype[name]), as a template literal or `+` prints it.
InheritedText(name) ==
  IF name = ProtoName THEN <<"[", "o", "b", "j", "e", "c", "t", SP, "O", "b", "j", "e", "c", "t", "]">>
  ELSE <<"f", "u", "n", "c", "t", "i", "o", "n", SP>>
         \o (IF name = ConstructorName THEN <<"O", "b", "j", "e", "c", "t">> ELSE name)
         \o <<"(", ")", SP, "{", SP, "[", "n", "a", "t", "i", "v", "e", SP, "c", "o", "d", "e", "]", SP, "}">>

\* obj[key] for a key obj does not own: the inherited value, which is not a
\* text (the one-element sequence of its typeof), or undefined.
Inherited(key) ==
  IF key \in ObjectPrototypeNames THEN <<TypeofInherited(key)>> ELSE Undefined

\* map[key]: the own entry, else what the prototype chain gives.
Lookup(map, key) == IF key \in DOMAIN map THEN map[key] ELSE Inherited(key)

\* value == "text" (JavaScript loose equality against a string literal).
\* A number or boolean is compared as a number: Number("") is 0 and
\* Number of a non-numeric text is NaN.
LooseEq(value, text) ==
  CASE value.k = "str"  -> value.v = text
    [] value.k = "num"  -> (text = <<>> /\ value.v = <<"0">>) \/ (text # <<>> /\ value.v = text /\ IsJsonNumber(text))
    [] value.k = "bool" -> text = <<>> /\ value.v = <<"f", "a", "l", "s", "e">>
    [] OTHER -> FALSE

\* value[0] == '"' && value[value.length - 1] == '"'
IsQuoted(value) ==
  /\ value.k = "str"
  /\ Len(value.v) > 0
  /\ value.v[1] = QT
  /\ value.v[Len(value.v)] = QT

\* JSON.stringify(value)
JSONstringify(value) ==
  IF value.k = "str" THEN JSONstringifyString(value.v) ELSE value.v

(***************************************************************************)
(* generateQueries (src/index.js:130-197).                                 *)
(***************************************************************************)
NoError == [name |-> "none", key |-> <<>>]

\* What one field contributes: the text appended to query, or the error thrown.
Emit(text) == [threw |-> FALSE, error |-> NoError, text |-> text]

Throw(error) == [threw |-> TRUE, error |-> error, text |-> <<>>]

\* The SyntaxError of JSON.parse or the TypeError of value.split, rethrown.
ValueError == [name |-> "ValueError", key |-> <<>>]

\* The API name: add<Model> or validate<Model>ForCreation.
ApiName(modelName, isMutation) ==
  IF isMutation
  THEN <<"a", "d", "d">> \o Capitalize(modelName)
  ELSE <<"v", "a", "l", "i", "d", "a", "t", "e">> \o Capitalize(modelName)
         \o <<"F", "o", "r", "C", "r", "e", "a", "t", "i", "o", "n">>

\* "add" + assocName.slice(0, 1).toUpperCase() + assocName.slice(1)
AddAssocName(assocName) == <<"a", "d", "d">> \o Capitalize(assocName)

\* One iteration of the loop over Object.entries(associations): the pair
\* <<addAssocName, type>> it assigns, if any.
AddAssociation(def, assocObj) ==
  IF ~IsFalsy(assocObj.sourceKey)
  THEN <<<<AddAssocName(assocObj.name), Lookup(def.attributes, assocObj.sourceKey)>>>>
  ELSE IF assocObj.keysIn = def.model
  THEN <<<<AddAssocName(assocObj.name), Lookup(def.attributes, assocObj.targetKey)>>>>
  ELSE <<>>

\* addAssociations: the pairs <<addAssocName, type>> in the order of assignment.
RECURSIVE BuildAddAssociations(_, _)
BuildAddAssociations(def, i) ==
  IF i > Len(def.associations) THEN <<>>
  ELSE AddAssociation(def, def.associations[i]) \o BuildAddAssociations(def, i + 1)

AssocAt(addAssociations, key, i) ==
  IF i = 0 THEN Inherited(key) ELSE addAssociations[i][2]

\* addAssociations[key]: the last assignment under that name wins, and a
\* name never assigned gives what the prototype chain gives.
AssocLookup(addAssociations, key) ==
  AssocAt(addAssociations, key,
          MaxOrZero({i \in 1..Len(addAssociations) : addAssociations[i][1] = key}))

\* a ?? b: b replaces undefined (and null) only, not the empty text.
Coalesce(a, b) == IF a # Undefined THEN a ELSE b

\* let type = attributes[key] ?? addAssociations[key]
ResolveType(def, addAssociations, key) ==
  Coalesce(Lookup(def.attributes, key), AssocLookup(addAssociations, key))

\* IsNullSentinel without the comparison to '"NULL"'.
IsNullSentinelUnquoted(value) ==
  \/ LooseEq(value, <<"N", "U", "L", "L">>)
  \/ LooseEq(value, <<>>)

\* value == "NULL" || value == '"NULL"' || value == ""
IsNullSentinel(value) ==
  \/ LooseEq(value, <<"N", "U", "L", "L">>)
  \/ LooseEq(value, <<QT, "N", "U", "L", "L", QT>>)
  \/ LooseEq(value, <<>>)

\* `${key}:[${array}],` or `${key}:[${array.map(JSON.stringify)}],`
ListText(key, array, type) ==
  key \o <<":", "[">>
    \o Join(IF SubSeq(type, 2, Len(type) - 1) \in non_string_types
            THEN array
            ELSE [i \in 1..Len(array) |-> JSONstringifyString(array[i])],
            <<",">>)
    \o <<"]", ",">>

QuotedListArgument(key, parsed, type, arrayDelimiter) ==
  IF parsed.ok
  THEN Emit(ListText(key, Split(parsed.text, arrayDelimiter), type))
  ELSE Throw(ValueError)

\* The branch type[0] === "[".
ListArgument(key, value, type, arrayDelimiter) ==
  IF value.k # "str" THEN Throw(ValueError)
  ELSE IF IsQuoted(value)
  THEN QuotedListArgument(key, JSONparse(value.v), type, arrayDelimiter)
  ELSE Emit(ListText(key, Split(value.v, arrayDelimiter), type))

QuotedNumberArgument(key, parsed) ==
  IF parsed.ok
  THEN Emit(key \o <<":">> \o parsed.text \o <<",">>)
  ELSE Throw(ValueError)

\* The last branch: a scalar type.
ScalarArgument(key, value, type) ==
  IF type \in non_string_types
  THEN IF IsQuoted(value)
       THEN QuotedNumberArgument(key, JSONparse(value.v))
       ELSE Emit(key \o <<":">> \o value.v \o <<",">>)
  ELSE Emit(key \o <<":">> \o (IF IsQuoted(value) THEN value.v ELSE JSONstringify(value))
              \o <<",">>)

\* TypedArgument without the test `if (!type)`: a field without a type is
\* emitted as a string-like scalar.
TypedArgumentLenient(type, key, value, arrayDelimiter) ==
  IF IsNullSentinel(value) THEN Emit(<<>>)
  ELSE IF ~IsFalsy(type) /\ type[1] = "[" THEN ListArgument(key, value, type, arrayDelimiter)
  ELSE ScalarArgument(key, value, type)

\* The body of the try block, given the type of the field.
TypedArgument(type, key, value, arrayDelimiter) ==
  IF IsFalsy(type) THEN Throw([name |-> "NoSuchField", key |-> key])
  ELSE IF IsNullSentinel(value) THEN Emit(<<>>)
  ELSE IF type[1] = "[" THEN ListArgument(key, value, type, arrayDelimiter)
  ELSE ScalarArgument(key, value, type)

\* One iteration of the loop over Object.entries(record).
FieldArgument(def, addAssociations, key, value, arrayDelimiter) ==
  TypedArgument(ResolveType(def, addAssociations, key), key, value, arrayDelimiter)

\* The loop over the fields of one record, from field i on, appending to
\* query: [threw, error, query].
RECURSIVE FieldsLoop(_, _, _, _, _, _)
FieldsNext(query, def, addAssociations, record, i, arrayDelimiter, r) ==
  IF r.threw THEN [threw |-> TRUE, error |-> r.error, query |-> <<>>]
  ELSE FieldsLoop(query \o r.text, def, addAssociations, record, i + 1, arrayDelimiter)

FieldsLoop(query, def, addAssociations, record, i, arrayDelimiter) ==
  IF i > Len(record) THEN [threw |-> FALSE, error |-> NoError, query |-> query]
  ELSE FieldsNext(query, def, addAssociations, record, i, arrayDelimiter,
                  FieldArgument(def, addAssociations, record[i][1], record[i][2],
                                arrayDelimiter))

\* query += `n${index + 1}: ${API}(`, for the 1-based index here.
OpenBlock(query, def, index, isMutation) ==
  query \o <<"n">> \o NumToText(index) \o <<":", SP>> \o ApiName(def.model, isMutation)
    \o <<"(">>

\* query = query.slice(0, query.length - 1); query += `){${id}}\n` or ")\n"
CloseBlock(query, def, isMutation) ==
  DropLast(query)
    \o (IF isMutation THEN <<")", "{">> \o def.id \o <<"}", NL>> ELSE <<")", NL>>)

\* The loop over records.entries(), from record index on.
RECURSIVE RecordsLoop(_, _, _, _, _, _, _)
RecordsNext(def, addAssociations, records, index, isMutation, arrayDelimiter, r) ==
  IF r.threw THEN r
  ELSE RecordsLoop(CloseBlock(r.query, def, isMutation), def, addAssociations, records,
                   index + 1, isMutation, arrayDelimiter)

RecordsLoop(query, def, addAssociations, records, index, isMutation, arrayDelimiter) ==
  IF index > Len(records) THEN [threw |-> FALSE, error |-> NoError, query |-> query]
  ELSE RecordsNext(def, addAssociations, records, index, isMutation, arrayDelimiter,
                   FieldsLoop(OpenBlock(query, def, index, isMutation), def,
                              addAssociations, records[index], 1, arrayDelimiter))

\* query += "}"; return query
CloseQuery(r) ==
  IF r.threw THEN r
  ELSE [threw |-> FALSE, error |-> NoError, query |-> r.query \o <<"}">>]

\* generateQueries(records, dataModelDefinition, isMutation, arrayDelimiter):
\* [threw, error, query].
generateQueries(records, def, isMutation, arrayDelimiter) ==
  CloseQuery(RecordsLoop(IF isMutation
                         THEN <<"m", "u", "t", "a", "t", "i", "o", "n", "{", NL>>
                         ELSE <<"{", NL>>,
                         def, BuildAddAssociations(def, 1), records, 1, isMutation,
                         arrayDelimiter))

(***************************************************************************)
(* responseParser (src/index.js:207-266).                                  *)
(*                                                                         *)
(* What the executor answers is an outcome [rejected, hasResponse,         *)
(* response]: the promise of execute_graphql resolves with response, or    *)
(* rejects with an error whose .response is response (hasResponse) or is   *)
(* missing. A response is [hasErrors, errors, hasData, data]: data is the  *)
(* list of pairs <<alias, flag>> and an error is                           *)
(* [msg, inputAt, input, hasLocation, line], inputAt telling where the     *)
(* input sits ("input", "extensions", "none": extensions without input,   *)
(* "noExtensions": neither). An input object is the set of its pairs       *)
(* <<key, canonical JSON text of the value>>.                              *)
(*                                                                         *)
(* The report parsed_response is the set of its entries                    *)
(* [num, hasSubquery, subquery, errors], num standing for the key          *)
(* "record" + num.                                                         *)
(***************************************************************************)
NoResponse == [hasErrors |-> FALSE, errors |-> <<>>, hasData |-> FALSE, data |-> <<>>]

\* The object new_val is [own, proto]: own is the set of its own pairs and
\* proto its prototype, "Object" (Object.prototype) for the literal {},
\* "Array" for a list and "null" for none.
EmptyObject == [own |-> {}, proto |-> "Object"]

\* The canonical text is that of a list, which is an object.
IsListCanon(val) == Len(val) > 0 /\ val[1] = "["

IsNullCanon(val) == val = <<"n", "u", "l", "l">>

\* obj.__proto__ = val through the setter inherited from Object.prototype:
\* a list or null replaces the prototype, any other value is ignored, and
\* no own key is created.
SetPrototype(obj, val) ==
  IF IsListCanon(val) THEN [own |-> obj.own, proto |-> "Array"]
  ELSE IF IsNullCanon(val) THEN [own |-> obj.own, proto |-> "null"]
  ELSE obj

\* obj[key] = val: an assignment replaces the own entry of the same key;
\* the key __proto__ runs the setter as long as obj inherits it.
PutKey(obj, key, val) ==
  IF key = ProtoName /\ obj.proto # "null" /\ ~\E p \in obj.own : p[1] = ProtoName
  THEN SetPrototype(obj, val)
  ELSE [own |-> {p \in obj.own : p[1] # key} \cup {<<key, val>>}, proto |-> obj.proto]

PutEntry(report, entry) == {e \in report : e.num # entry.num} \cup {entry}

FlagAt(data, i) == i # 0 /\ data[i][2] = "false"

\* response.data[name] === false
DataIsFalse(data, name) ==
  FlagAt(data, MaxOrZero({i \in 1..Len(data) : data[i][1] = name}))

\* The loop `for (let value of values)` building new_val, from value i on:
\* [threw, obj, proto], obj being the own pairs of new_val.
NoArgs == [threw |-> TRUE, obj |-> {}, proto |-> "Object"]

RECURSIVE BuildNewVal(_, _, _)
NewValParsed(values, i, new_val, key, parsed) ==
  IF ~parsed.ok THEN NoArgs
  ELSE BuildNewVal(values, i + 1, PutKey(new_val, key, parsed.canon))

\* let [key, val] = value.split(":"); new_val[key] = JSON.parse(val)
NewValPair(values, i, new_val, kv) ==
  IF Len(kv) < 2 THEN NoArgs
  ELSE NewValParsed(values, i, new_val, kv[1], JSONparse(kv[2]))

BuildNewVal(values, i, new_val) ==
  IF i > Len(values) THEN [threw |-> FALSE, obj |-> new_val.own, proto |-> new_val.proto]
  ELSE NewValPair(values, i, new_val, Split(values[i], <<":">>))

ArgsAfterOpen(byOpen) ==
  IF Len(byOpen) < 2 THEN NoArgs
  ELSE BuildNewVal(Split(Split(byOpen[2], <<")">>)[1], <<",">>), 1, EmptyObject)

\* The arguments of one record's line, as responseParser reconstructs
\* them: split_res[1].split("(")[1].split(")")[0].split(","), then each
\* pair split on ":" and JSON.parse'd. [threw, obj, proto].
ReconstructArgs(split_res) ==
  IF Len(split_res) < 2 THEN NoArgs
  ELSE ArgsAfterOpen(Split(split_res[2], <<"(">>))

\* err_obj.input ?? err_obj.extensions.input: [threw, defined, input]
ErrorInput(err_obj) ==
  CASE err_obj.inputAt = "input"      -> [threw |-> FALSE, defined |-> TRUE, input |-> err_obj.input]
    [] err_obj.inputAt = "extensions" -> [threw |-> FALSE, defined |-> TRUE, input |-> err_obj.input]
    [] err_obj.inputAt = "none"       -> [threw |-> FALSE, defined |-> FALSE, input |-> {}]
    [] OTHER                          -> [threw |-> TRUE, defined |-> FALSE, input |-> {}]

\* obj[name] for an own key of obj.
OwnValue(own, name) == (CHOOSE p \in own : p[1] = name)[2]

Owns(own, name) == \E p \in own : p[1] = name

\* a.constructor !== b.constructor, a being an input (a plain object of the
\* response) and b new_val: an own constructor is a JSON value, equal to
\* another only when both are the same null, boolean, number or string; an
\* inherited one is Object, Array or (without prototype) undefined.
SameConstructor(input, new_val) ==
  IF Owns(input, ConstructorName) /\ Owns(new_val.own, ConstructorName)
  THEN /\ OwnValue(input, ConstructorName) = OwnValue(new_val.own, ConstructorName)
       /\ ~IsListCanon(OwnValue(input, ConstructorName))
  ELSE /\ ~Owns(input, ConstructorName)
       /\ ~Owns(new_val.own, ConstructorName)
       /\ new_val.proto = "Object"

ValueOfName == <<"v", "a", "l", "u", "e", "O", "f">>

\* equal(input, new_val) of fast-deep-equal for a defined input: "true",
\* "false", or "throws" when input owns valueOf or toString, which equal
\* then calls although a JSON value is no function.
DeepEqual(input, new_val) ==
  IF ~SameConstructor(input, new_val) THEN "false"
  ELSE IF Owns(input, ValueOfName) \/ Owns(input, ToStringName) THEN "throws"
  ELSE IF Cardinality(input) # Cardinality(new_val.own) THEN "false"
  ELSE IF \E p \in input : ~Owns(new_val.own, p[1]) THEN "false"
  ELSE IF \A p \in input : OwnValue(new_val.own, p[1]) = p[2] THEN "true"
  ELSE "false"

\* MatchingError without the test equal(input, new_val): the last error.
MatchingErrorUntested(errors, new_val) == [threw |-> FALSE, err_index |-> Len(errors)]

\* The loop over inputs for one failing line: [threw, err_index], err_index
\* (1-based here) being what is left in map_queries[query_index], 0 when no
\* input is deep-equal. Each match assigns map_queries[query_index] again,
\* and a throw of equal ends responseParser.
MatchingError(errors, new_val) ==
  IF \E e \in 1..Len(errors) :
       /\ ErrorInput(errors[e]).defined
       /\ DeepEqual(ErrorInput(errors[e]).input, new_val) = "throws"
  THEN [threw |-> TRUE, err_index |-> 0]
  ELSE [threw |-> FALSE,
        err_index |-> MaxOrZero({e \in 1..Len(errors) :
                                   /\ ErrorInput(errors[e]).defined
                                   /\ DeepEqual(ErrorInput(errors[e]).input, new_val)
                                        = "true"})]

FlagArgs(response, args) ==
  IF args.threw THEN [threw |-> TRUE, err_index |-> 0]
  ELSE MatchingError(response.errors, [own |-> args.obj, proto |-> args.proto])

FlagSplit(response, split_res) ==
  IF DataIsFalse(response.data, split_res[1])
  THEN FlagArgs(response, ReconstructArgs(split_res))
  ELSE [threw |-> FALSE, err_index |-> 0]

\* One iteration of the loop over Object.entries(subqueries): [threw, err_index].
FlagLine(response, query) == FlagSplit(response, Split(query, <<":", SP>>))

\* The loop over the sorted indices of map_queries, given what each line left there.
FlagReport(response, lines, batch_size, batch_num) ==
  IF \/ \E e \in 1..Len(response.errors) : ErrorInput(response.errors[e]).threw
     \/ \E q \in 1..Len(lines) : lines[q].threw
  THEN [threw |-> TRUE, report |-> {}]
  ELSE [threw |-> FALSE,
        report |-> {[num |-> batch_size * batch_num + (q - 1) + 1,
                     hasSubquery |-> FALSE, subquery |-> <<>>,
                     errors |-> response.errors[lines[q].err_index]] :
                    q \in {x \in 1..Len(lines) : lines[x].err_index # 0}}]

\* The branch `if (response.data)`: [threw, report].
FlagStrategy(response, subqueries, batch_size, batch_num) ==
  FlagReport(response, [q \in 1..Len(subqueries) |-> FlagLine(response, subqueries[q])],
             batch_size, batch_num)

\* The entry one error writes in the branch without data, index being
\* err.locations[0].line - 1.
LineEntry(err, index, subqueries, batch_size, batch_num) ==
  [num |-> batch_size * batch_num + index,
   hasSubquery |-> index - 1 >= 0 /\ index - 1 < Len(subqueries),
   subquery |-> IF index - 1 >= 0 /\ index - 1 < Len(subqueries)
                THEN subqueries[index] ELSE <<>>,
   errors |-> err]

\* The branch without data, from error e on: [threw, report].
RECURSIVE LineStrategy(_, _, _, _, _, _)
LineStrategy(response, subqueries, batch_size, batch_num, e, report) ==
  IF e > Len(response.errors) THEN [threw |-> FALSE, report |-> report]
  ELSE IF ~response.errors[e].hasLocation THEN [threw |-> TRUE, report |-> {}]
  ELSE LineStrategy(response, subqueries, batch_size, batch_num, e + 1,
         PutEntry(report,
                  LineEntry(response.errors[e], response.errors[e].line - 1, subqueries,
                            batch_size, batch_num)))

\* subqueries.slice(1, subqueries.length - 1)
InnerLines(all) == IF Len(all) < 3 THEN <<>> ELSE SubSeq(all, 2, Len(all) - 1)

\* queries.split("\n") without its first and last element.
Subqueries(queries) == InnerLines(Split(queries, <<NL>>))

\* ParseResponse without the test `if (response.errors)`: reading the
\* errors of a response that has none throws a TypeError.
ParseResponseUnguarded(response, subqueries, batch_size, batch_num) ==
  IF ~response.hasErrors THEN [threw |-> TRUE, report |-> {}]
  ELSE IF response.hasData
  THEN FlagStrategy(response, subqueries, batch_size, batch_num)
  ELSE LineStrategy(response, subqueries, batch_size, batch_num, 1, {})

\* The part of responseParser after the executor answered with response.
ParseResponse(response, subqueries, batch_size, batch_num) ==
  IF ~response.hasErrors THEN [threw |-> FALSE, report |-> {}]
  ELSE IF response.hasData
  THEN FlagStrategy(response, subqueries, batch_size, batch_num)
  ELSE LineStrategy(response, subqueries, batch_size, batch_num, 1, {})

\* responseParser(queries, execute_graphql, batch_size, batch_num), given
\* the outcome of execute_graphql(queries): [threw, report].
responseParser(queries, outcome, batch_size, batch_num) ==
  IF ~outcome.hasResponse THEN [threw |-> TRUE, report |-> {}]
  ELSE ParseResponse(outcome.response, Subqueries(queries), batch_size, batch_num)

(***************************************************************************)
(* bulkDownload (src/index.js:278-383).                                    *)
(*                                                                         *)
(* An attribute of a downloaded record is [k, v] as above, or a list       *)
(* [k |-> "list", v |-> the texts of its elements], or null, or a function *)
(* or object inherited from Object.prototype, or undefined when the record *)
(* has no such attribute and inherits none.                                *)
(***************************************************************************)
ListOf(elements) == [k |-> "list", v |-> elements]
Null == [k |-> "null", v |-> <<>>]
NoAttribute == [k |-> "undefined", v |-> <<>>]

\* record[attr] for a name the record does not own: the value inherited from
\* Object.prototype, with the text String(value) prints, or undefined.
InheritedAttribute(attr) ==
  IF attr \in ObjectPrototypeNames
  THEN [k |-> TypeofInherited(attr), v |-> InheritedText(attr)]
  ELSE NoAttribute

\* record[attr]
AttributeAt(record, attr, i) == IF i = 0 THEN InheritedAttribute(attr) ELSE record[i][2]

AttributeOf(record, attr) ==
  AttributeAt(record, attr, MaxOrZero({i \in 1..Len(record) : record[i][1] = attr}))

\* inflection.pluralize(name), for the regular nouns of the model.
pluralize(name) == name \o <<"s">>

\* c.toLowerCase(), on the letters the model uses.
LowerChar(c) ==
  CASE c = "M" -> "m"
    [] OTHER -> c

\* model_name.slice(0, 1).toLowerCase() + model_name.slice(1)
Uncapitalize(s) == IF Len(s) = 0 THEN s ELSE <<LowerChar(s[1])>> \o SubSeq(s, 2, Len(s))

\* The field of the connection the query asks the records under.
QueriedNodesField(model_name) == pluralize(Uncapitalize(model_name))

\* The key bulkDownload reads the records from: data[inflection.pluralize(model_name)]
ReadNodesKey(model_name) == pluralize(model_name)

\* `first:${batch_step.first}${batch_step.after ? ', after:"' + batch_step.after + '"' : ""}`
PaginationArgument(batch_step) ==
  <<"f", "i", "r", "s", "t", ":">> \o NumToText(batch_step.first)
    \o (IF batch_step.after # <<>>
        THEN <<",", SP, "a", "f", "t", "e", "r", ":", QT>> \o batch_step.after \o <<QT>>
        ELSE <<>>)

\* record[attr] === null || record[attr] === undefined ||
\* (Array.isArray(record[attr]) && record[attr].length === 0)
IsAbsent(value) ==
  \/ value.k = "null"
  \/ value.k = "undefined"
  \/ (value.k = "list" /\ Len(value.v) = 0)

\* What one attribute adds to row, the field delimiter included.
AttributeText(value, fieldDelimiter, arrayDelimiter) ==
  IF IsAbsent(value)
  THEN <<QT, "N", "U", "L", "L", QT>> \o fieldDelimiter
  ELSE (IF value.k = "list"
        THEN <<QT>> \o Join(value.v, arrayDelimiter) \o <<QT>>
        ELSE <<QT>> \o value.v \o <<QT>>)
       \o fieldDelimiter

\* attributes.forEach(...), from attribute i on, appending to row.
RECURSIVE RowLoop(_, _, _, _, _, _)
RowLoop(row, record, attributes, i, fieldDelimiter, arrayDelimiter) ==
  IF i > Len(attributes) THEN row
  ELSE RowLoop(row \o AttributeText(AttributeOf(record, attributes[i]), fieldDelimiter,
                                    arrayDelimiter),
               record, attributes, i + 1, fieldDelimiter, arrayDelimiter)

\* The row of one record: the loop, then row = row.slice(0, -1).
RowText(record, attributes, fieldDelimiter, arrayDelimiter) ==
  DropLast(RowLoop(<<>>, record, attributes, 1, fieldDelimiter, arrayDelimiter))

(***************************************************************************)
(* State.                                                                  *)
(***************************************************************************)
VARIABLES
  path,            \* "csv": csvProcessing, "json": jsonProcessing, "pure": one call of generateQueries and responseParser
  records,         \* the rows of the file, the records array, or the batch
  isValidation,    \* the isValidation argument
  BATCH_SIZE,      \* globals.LIMIT_RECORDS ?? globals.MAX_RECORD_LIMIT
  ARRAY_DELIMITER, \* globals.ARRAY_DELIMITER
  delivered,       \* csv: the number of rows the parser has passed to step
  paused,          \* csv: parser.pause() was called and parser.resume() was not yet
  ended,           \* csv: the parser has called complete or error
  recordsBuffer,   \* csv: recordsBuffer
  batch_num,       \* batch_num
  records_num,     \* json: records_num
  handler,         \* json and single calls: where the run stands; csv: how the source ended
  awaiting,        \* the async functions suspended at an await: step, complete, jsonProcessing, responseParser
  crashed,         \* csv: a step or complete callback threw (its promise rejected, unhandled)
  batch,           \* the records passed to the last call of generateQueries
  compiled,        \* what the last call of generateQueries returned or threw
  queries,         \* the document passed to the last call of responseParser
  outcome,         \* what execute_graphql answered last
  parsed,          \* what the last await of responseParser gave its caller
  promise,         \* the promise csvProcessing / jsonProcessing / bulkDownload returned
  sent,            \* the batches handed to execute_graphql so far
  model_name,      \* download: model_name
  attributes,      \* download: attributes
  FIELD_DELIMITER, \* download: globals.FIELD_DELIMITER
  RECORD_DELIMITER,\* download: globals.RECORD_DELIMITER
  stored,          \* download: the records of the model the server holds, in cursor order
  total_records,   \* download: total_records
  writableStream,  \* download: what was pushed or written to writableStream, in order
  batch_step,      \* download: batch_step
  hasNextPage,     \* download: hasNextPage
  nodes,           \* download: nodes
  appended,        \* download: the number of records of nodes the for await loop has done
  requested        \* download: the pagination arguments of the page queries issued so far

vars == <<path, records, isValidation, BATCH_SIZE, ARRAY_DELIMITER, delivered,
          paused, ended, recordsBuffer, batch_num, records_num, handler,
          awaiting, crashed, batch, compiled, queries, outcome, parsed, promise, sent,
          model_name, attributes, FIELD_DELIMITER, RECORD_DELIMITER, stored,
          total_records, writableStream, batch_step, hasNextPage, nodes, appended,
          requested>>

\* The state of bulkDownload.
downloadVars == <<model_name, attributes, FIELD_DELIMITER, RECORD_DELIMITER, stored,
                  total_records, writableStream, batch_step, hasNextPage, nodes,
                  appended, requested>>

(***************************************************************************)
(* Inputs.                                                                 *)
(***************************************************************************)
\* The data model definition: model m with primary key a, a to-one
\* association r whose key c is held by m, an association s whose key is
\* held by the other model o, and an association t with a sourceKey; b and
\* c are Int, l is [String] and f is Boolean.  The attribute addT is declared
\* with the empty text as its type, under the name addAssociations gives to t.
Definition ==
  [model |-> <<"m">>,
   id |-> <<"a">>,
   attributes |-> (<<"a">> :> T_String) @@ (<<"b">> :> T_Int) @@ (<<"c">> :> T_Int)
                    @@ (<<"l">> :> T_ListString) @@ (<<"f">> :> T_Boolean)
                    @@ (<<"a", "d", "d", "T">> :> <<>>),
   associations |->
     <<[name |-> <<"r">>, sourceKey |-> Undefined, keysIn |-> <<"m">>, targetKey |-> <<"c">>],
       [name |-> <<"s">>, sourceKey |-> Undefined, keysIn |-> <<"o">>, targetKey |-> <<"c">>],
       [name |-> <<"t">>, sourceKey |-> <<"b">>, keysIn |-> <<"o">>, targetKey |-> <<"a">>]>>]

AddR == <<"a", "d", "d", "R">>
TextNULL == <<"N", "U", "L", "L">>

\* A record is the sequence of its pairs <<key, value>>, in the order of
\* Object.entries(record).
Field(key, value) == <<key, value>>

\* Records for single calls of generateQueries.
PureRecords ==
  { <<>>,
    <<Field(<<"a">>, Str(<<"x">>))>>,
    <<Field(<<"b">>, Str(<<"1">>))>>,
    <<Field(<<"a">>, Str(<<"x">>)), Field(<<"b">>, Str(<<QT, "2", QT>>))>>,
    <<Field(<<"a">>, Str(<<QT, "x", NL, "y", QT>>))>>,
    <<Field(<<"b">>, Str(<<"1", NL, "2">>))>>,
    <<Field(<<"a">>, Str(TextNULL)), Field(<<"b">>, Str(<<"1">>))>>,
    <<Field(<<"a">>, Str(<<QT>> \o TextNULL \o <<QT>>)), Field(<<"b">>, Str(<<>>))>>,
    <<Field(<<"b">>, Str(<<"1">>)), Field(<<"a">>, Str(<<>>))>>,
    <<Field(<<"x">>, Str(<<"1">>))>>,
    <<Field(<<"a">>, Str(<<"x">>)), Field(<<"x">>, Str(TextNULL))>>,
    <<Field(<<"c">>, Str(<<"5">>))>>,
    <<Field(AddR, Str(<<QT, "5", QT>>))>>,
    <<Field(<<"l">>, Str(<<"p", "|", "q">>))>>,
    <<Field(<<"l">>, Str(<<"p">>))>>,
    <<Field(<<"b">>, Str(<<QT>>)), Field(<<"x">>, Str(<<"1">>))>>,
    <<Field(<<"x">>, Str(<<"1">>)), Field(<<"b">>, Str(<<QT>>))>>,
    <<Field(<<"b">>, Num(<<"0">>))>>,
    <<Field(<<"a">>, Str(<<"x">>)), Field(<<"f">>, Bool(<<"f", "a", "l", "s", "e">>))>>,
    <<Field(<<"b">>, Num(<<"5">>)), Field(<<"f">>, Bool(<<"t", "r", "u", "e">>))>>,
    <<Field(ToStringName, Str(<<"1">>))>>,
    <<Field(<<"a", "d", "d", "T">>, Str(<<"1">>))>>,
    <<Field(<<"b">>, Str(<<QT, BS, "t", QT>>))>>,
    <<Field(<<"a">>, Str(<<QT, BS, "u", "0", "0", "4", "1", QT>>)),
      Field(<<"b">>, Str(<<QT, BS, "u", "0", "0", "3", "1", QT>>))>> }

MaxBatch == 2

PureBatches == UNION {[1..n -> PureRecords] : n \in 0..MaxBatch}

ArrayDelimiters == {<<"|">>}

\* Records for single calls of responseParser on a compiled document.
ParseRecords ==
  { <<>>,
    <<Field(<<"a">>, Str(<<"x">>))>>,
    <<Field(ProtoName, Str(<<"1">>))>>,
    <<Field(<<"a">>, Str(<<"x">>)), Field(<<"b">>, Str(<<QT, "2", QT>>))>>,
    <<Field(<<"a">>, Str(<<QT, "x", NL, "y", QT>>))>> }

MaxLines == 2

ParseBatches == UNION {[1..n -> ParseRecords] : n \in 1..MaxLines}

MaxBatchNum == 1

\* The input objects an error of the executor may carry.
InputObjects ==
  { {<<<<"a">>, <<QT, "x", QT>>>>},
    {},
    {<<<<"a">>, <<QT, "x", QT>>>>, <<<<"b">>, <<"2">>>>} }

MaxErrors == 2

InputError(msg, input) ==
  [msg |-> msg, inputAt |-> IF msg % 2 = 1 THEN "input" ELSE "extensions",
   input |-> input, hasLocation |-> FALSE, line |-> 0]

LineError(msg, line) ==
  [msg |-> msg, inputAt |-> "noExtensions", input |-> {}, hasLocation |-> TRUE, line |-> line]

AliasText(k) == <<"n">> \o NumToText(k)

\* Responses with data and errors: a flag for each alias n1..n{n}, and one
\* to MaxErrors errors carrying an input.
FlagResponses(n) ==
  { [hasErrors |-> TRUE,
     errors |-> [e \in 1..Len(ins) |-> InputError(e, ins[e])],
     hasData |-> TRUE,
     data |-> [k \in 1..n |-> <<AliasText(k), flags[k]>>]] :
    flags \in [1..n -> {"true", "false"}],
    ins \in UNION {[1..m -> InputObjects] : m \in 1..MaxErrors} }

\* Responses with errors and no data: one to MaxErrors errors with a line.
LineResponses(n) ==
  { [hasErrors |-> TRUE,
     errors |-> [e \in 1..Len(ls) |-> LineError(e, ls[e])],
     hasData |-> FALSE,
     data |-> <<>>] :
    ls \in UNION {[1..m -> 1..(n + 2)] : m \in 1..MaxErrors} }

\* Responses without errors.
OkResponses(n) ==
  { NoResponse,
    [hasErrors |-> FALSE, errors |-> <<>>, hasData |-> TRUE,
     data |-> [k \in 1..n |-> <<AliasText(k), "true">>]] }

Resolved(response) == [rejected |-> FALSE, hasResponse |-> TRUE, response |-> response]
RejectedWith(response) == [rejected |-> TRUE, hasResponse |-> TRUE, response |-> response]
RejectedBare == [rejected |-> TRUE, hasResponse |-> FALSE, response |-> NoResponse]

\* What execute_graphql may answer to a document of n records.
ParseOutcomes(n) ==
  {Resolved(r) : r \in FlagResponses(n) \cup LineResponses(n) \cup OkResponses(n)}
    \cup {RejectedWith(r) : r \in LineResponses(n)}
    \cup {RejectedBare}

(***************************************************************************)
(* Initial states.                                                         *)
(***************************************************************************)
NoCompiled == [threw |-> FALSE, error |-> NoError, query |-> <<>>]
NoOutcome  == [rejected |-> FALSE, hasResponse |-> FALSE, response |-> NoResponse]
NoParsed   == [threw |-> FALSE, report |-> {}]
Pending    == [state |-> "pending", kind |-> "none", report |-> {}, error |-> NoError]

InitRest ==
  /\ delivered = 0
  /\ paused = FALSE
  /\ ended = FALSE
  /\ recordsBuffer = <<>>
  /\ handler = "start"
  /\ awaiting = <<>>
  /\ crashed = FALSE
  /\ batch = <<>>
  /\ compiled = NoCompiled
  /\ queries = <<>>
  /\ outcome = NoOutcome
  /\ parsed = NoParsed
  /\ promise = Pending
  /\ sent = <<>>

\* No download is running.
NoDownload ==
  /\ model_name = <<>>
  /\ attributes = <<>>
  /\ FIELD_DELIMITER = <<>>
  /\ RECORD_DELIMITER = <<>>
  /\ stored = <<>>
  /\ total_records = 0
  /\ writableStream = <<>>
  /\ batch_step = [first |-> 0, after |-> <<>>]
  /\ hasNextPage = FALSE
  /\ nodes = <<>>
  /\ appended = 0
  /\ requested = <<>>

\* One call of generateQueries on a batch.
InitCompile ==
  /\ path = "pure"
  /\ records \in PureBatches
  /\ isValidation \in BOOLEAN
  /\ BATCH_SIZE = MaxBatch
  /\ ARRAY_DELIMITER \in ArrayDelimiters
  /\ batch_num = 0
  /\ records_num = 0
  /\ InitRest
  /\ NoDownload

\* One call of generateQueries and then of responseParser on its document.
InitParse ==
  /\ path = "parse"
  /\ records \in ParseBatches
  /\ isValidation \in BOOLEAN
  /\ BATCH_SIZE = MaxLines
  /\ ARRAY_DELIMITER \in ArrayDelimiters
  /\ batch_num \in {0, MaxBatchNum}
  /\ records_num = 0
  /\ InitRest
  /\ NoDownload

(***************************************************************************)
(* Single calls.                                                           *)
(***************************************************************************)
\* generateQueries(records, dataModelDefinition, isMutation, ARRAY_DELIMITER)
Compile ==
  /\ path \in {"pure", "parse"}
  /\ handler = "start"
  /\ batch' = records
  /\ compiled' = generateQueries(records, Definition, ~isValidation, ARRAY_DELIMITER)
  /\ queries' = compiled'.query
  /\ handler' = IF compiled'.threw THEN "threw" ELSE "compiled"
  /\ UNCHANGED <<path, records, isValidation, BATCH_SIZE, ARRAY_DELIMITER, delivered,
                 paused, ended, recordsBuffer, batch_num, records_num, outcome,
                 awaiting, crashed, parsed, promise, sent>>
  /\ UNCHANGED downloadVars

\* responseParser(queries, execute_graphql, BATCH_SIZE, batch_num), up to
\* `await execute_graphql(queries)`: the document is handed to the executor.
Correlate ==
  /\ path = "parse"
  /\ handler = "compiled"
  /\ handler' = "parseAwait"
  /\ awaiting' = Append(awaiting,
                        [kind |-> "call", queries |-> queries, batch_num |-> batch_num])
  /\ sent' = Append(sent, [batch_num |-> batch_num, batch |-> records])
  /\ UNCHANGED <<path, records, isValidation, BATCH_SIZE, ARRAY_DELIMITER, delivered,
                 paused, ended, recordsBuffer, batch_num, records_num, batch, outcome,
                 crashed, compiled, queries, parsed, promise>>
  /\ UNCHANGED downloadVars

\* responseParser, from the answer of the executor to its return or throw.
CorrelateRespond ==
  /\ path = "parse"
  /\ handler = "parseAwait"
  /\ awaiting' = <<>>
  /\ \E o \in ParseOutcomes(Len(records)) :
       /\ outcome' = o
       /\ parsed' = responseParser(awaiting[1].queries, o, BATCH_SIZE, awaiting[1].batch_num)
  /\ handler' = IF parsed'.threw THEN "threw" ELSE "parsed"
  /\ UNCHANGED <<path, records, isValidation, BATCH_SIZE, ARRAY_DELIMITER, delivered,
                 paused, ended, recordsBuffer, batch_num, records_num, batch,
                 crashed, compiled, queries, promise, sent>>
  /\ UNCHANGED downloadVars

NextCompile == Compile

NextParse == Compile \/ Correlate \/ CorrelateRespond

SpecCompile == InitCompile /\ [][NextCompile]_vars

SpecParse == InitParse /\ [][NextParse]_vars

(***************************************************************************)
(* csvProcessing (src/index.js:12-79) and jsonProcessing                   *)
(* (src/index.js:89-120).                                                  *)
(***************************************************************************)
\* Rows and records of the import runs.
RunRecords ==
  { <<Field(<<"a">>, Str(<<"x">>))>>,
    <<Field(<<"b">>, Str(<<"1">>))>>,
    <<Field(<<"x">>, Str(<<"1">>))>>,
    <<Field(ToStringName, Str(<<"1">>))>>,
    <<Field(<<"a">>, Str(<<QT, "x", NL, "y", QT>>))>> }

MaxRecords == 3

MaxBatchSize == 2

RunLists == UNION {[1..n -> RunRecords] : n \in 0..MaxRecords}

RunInputs ==
  { {<<<<"a">>, <<QT, "x", QT>>>>},
    {<<ToStringName, <<QT, "1", QT>>>>} }

\* What execute_graphql may answer to a document of n records during a run.
RunOutcomes(n) ==
  {Resolved(r) : r \in OkResponses(n)} \cup {RejectedBare}
    \cup {Resolved([hasErrors |-> TRUE, errors |-> <<InputError(1, in)>>, hasData |-> TRUE,
                    data |-> [k \in 1..n |-> <<AliasText(k), flags[k]>>]]) :
          flags \in [1..n -> {"true", "false"}], in \in RunInputs}
    \cup {Resolved([hasErrors |-> TRUE, errors |-> <<LineError(1, l)>>, hasData |-> FALSE,
                    data |-> <<>>]) : l \in 2..(n + 1)}

InitRun ==
  /\ path \in {"csv", "json"}
  /\ records \in RunLists
  /\ isValidation \in BOOLEAN
  /\ BATCH_SIZE \in 1..MaxBatchSize
  /\ ARRAY_DELIMITER \in ArrayDelimiters
  /\ batch_num = 0
  /\ records_num = 0
  /\ InitRest
  /\ NoDownload

\* resolve(), reject(value): only the first call settles the promise.
Fulfilled == [state |-> "resolved", kind |-> "none", report |-> {}, error |-> NoError]

RejectedReport(report) ==
  [state |-> "rejected", kind |-> "report", report |-> report, error |-> NoError]

RejectedError(error) ==
  [state |-> "rejected", kind |-> "error", report |-> {}, error |-> error]

Settle(p, value) == IF p.state = "pending" THEN value ELSE p

\* new Error(result) for a report object: the message is String(result),
\* "[object Object]", and the report itself is not kept.
NewErrorOfObject(result) == [name |-> "[object Object]", key |-> <<>>]

\* The TypeError or SyntaxError responseParser throws.
ParserThrow == [name |-> "ResponseError", key |-> <<>>]

\* What the error callback of the parser passes on.
SourceReadError == [name |-> "SourceReadError", key |-> <<>>]

\* array.slice(from, to)
Slice(array, from, to) ==
  SubSeq(array, from + 1, IF to < Len(array) THEN to ELSE Len(array))

RemoveAt(seq, i) == SubSeq(seq, 1, i - 1) \o SubSeq(seq, i + 1, Len(seq))

Shipment(num, recs) == [batch_num |-> num, batch |-> recs]

\* An async function suspended at an await.  kind: "step", "complete" or
\* "json"; stage: the call it awaits, "generateQueries" (src/index.js:34, 56,
\* 102), "execute_graphql" (responseParser, src/index.js:216) or
\* "responseParser" (src/index.js:40, 62, 108).
Suspended(kind, recs, c) ==
  [kind |-> kind, stage |-> "generateQueries", batch |-> recs, compiled |-> c,
   queries |-> c.query, batch_num |-> 0, outcome |-> NoOutcome, parsed |-> NoParsed]

\* responseParser(queries, execute_graphql, BATCH_SIZE, batch_num) is called
\* and suspends at await execute_graphql(queries).
Called(entry, num) == [entry EXCEPT !.stage = "execute_graphql", !.batch_num = num]

\* responseParser has returned or thrown r for the answer o.
Returned(entry, o, r) ==
  [entry EXCEPT !.stage = "responseParser", !.outcome = o, !.parsed = r]

\* StepCompiled without parser.pause() ahead of the awaits.
StepCompiledNoPause(buffer, c) ==
  /\ paused' = FALSE
  /\ batch' = buffer
  /\ compiled' = c
  /\ awaiting' = Append(awaiting, Suspended("step", buffer, c))

\* step, when the buffer is full: generateQueries has run on the buffer and
\* the callback is suspended at the await of src/index.js:34, the parser
\* being paused since src/index.js:31.
StepCompiled(buffer, c) ==
  /\ paused' = TRUE
  /\ batch' = buffer
  /\ compiled' = c
  /\ awaiting' = Append(awaiting, Suspended("step", buffer, c))

\* step, after parser.pause(), buffer being recordsBuffer after the push.
StepPushed(buffer) ==
  /\ recordsBuffer' = buffer
  /\ IF Len(buffer) % BATCH_SIZE = 0
     THEN StepCompiled(buffer,
                       generateQueries(buffer, Definition, ~isValidation, ARRAY_DELIMITER))
     ELSE /\ paused' = FALSE
          /\ UNCHANGED <<batch, compiled, awaiting>>

\* step: the callback for one row, up to its await on generateQueries (or to
\* its end when the buffer is not full).
Step ==
  /\ path = "csv"
  /\ ~paused /\ ~ended
  /\ delivered < Len(records)
  /\ delivered' = delivered + 1
  /\ StepPushed(Append(recordsBuffer, records[delivered + 1]))
  /\ UNCHANGED <<path, records, isValidation, BATCH_SIZE, ARRAY_DELIMITER, ended,
                 batch_num, records_num, handler, crashed, queries, outcome, parsed,
                 promise, sent>>
  /\ UNCHANGED downloadVars

\* A step or complete callback goes on after await generateQueries: the
\* error of generateQueries is thrown again and ends the callback, or
\* responseParser is called, hands the document to execute_graphql and
\* suspends.
CallbackSends(i) ==
  IF awaiting[i].compiled.threw
  THEN /\ crashed' = TRUE
       /\ awaiting' = RemoveAt(awaiting, i)
       /\ UNCHANGED <<sent, queries>>
  ELSE /\ awaiting' = [awaiting EXCEPT ![i] = Called(@, batch_num)]
       /\ sent' = Append(sent, Shipment(batch_num, awaiting[i].batch))
       /\ queries' = awaiting[i].queries
       /\ UNCHANGED crashed

\* step, from the await of generateQueries to the await of the executor.
StepSend ==
  /\ path = "csv"
  /\ \E i \in 1..Len(awaiting) :
       /\ awaiting[i].kind = "step"
       /\ awaiting[i].stage = "generateQueries"
       /\ CallbackSends(i)
  /\ UNCHANGED <<path, records, isValidation, BATCH_SIZE, ARRAY_DELIMITER, delivered,
                 paused, ended, recordsBuffer, batch_num, records_num, handler, batch,
                 compiled, outcome, parsed, promise>>
  /\ UNCHANGED downloadVars

\* responseParser, from the answer of the executor to its return or throw;
\* its caller is still suspended.
ParserRespond ==
  /\ path \in {"csv", "json"}
  /\ \E i \in 1..Len(awaiting) :
       /\ awaiting[i].stage = "execute_graphql"
       /\ \E o \in RunOutcomes(Len(awaiting[i].batch)) :
            /\ outcome' = o
            /\ awaiting' = [awaiting EXCEPT ![i] =
                 Returned(@, o, responseParser(@.queries, o, BATCH_SIZE, @.batch_num))]
  /\ UNCHANGED <<path, records, isValidation, BATCH_SIZE, ARRAY_DELIMITER, delivered,
                 paused, ended, recordsBuffer, batch_num, records_num, handler, crashed,
                 batch, compiled, queries, parsed, promise, sent>>
  /\ UNCHANGED downloadVars

\* StepParsed without `recordsBuffer = []`.
StepParsedKeepsBuffer(r) ==
  /\ parsed' = r
  /\ IF r.threw
     THEN /\ crashed' = TRUE
          /\ UNCHANGED <<promise, recordsBuffer, batch_num, paused>>
     ELSE /\ promise' = IF r.report # {}
                        THEN Settle(promise, RejectedReport(r.report))
                        ELSE promise
          /\ recordsBuffer' = recordsBuffer
          /\ batch_num' = batch_num + 1
          /\ paused' = FALSE
          /\ UNCHANGED crashed

\* step, from the return or throw r of responseParser to its end.
StepParsed(r) ==
  /\ parsed' = r
  /\ IF r.threw
     THEN /\ crashed' = TRUE
          /\ UNCHANGED <<promise, recordsBuffer, batch_num, paused>>
     ELSE /\ promise' = IF r.report # {}
                        THEN Settle(promise, RejectedReport(r.report))
                        ELSE promise
          /\ recordsBuffer' = <<>>
          /\ batch_num' = batch_num + 1
          /\ paused' = FALSE
          /\ UNCHANGED crashed

\* step, from the await of responseParser to its end.
StepResume ==
  /\ path = "csv"
  /\ \E i \in 1..Len(awaiting) :
       /\ awaiting[i].kind = "step"
       /\ awaiting[i].stage = "responseParser"
       /\ awaiting' = RemoveAt(awaiting, i)
       /\ StepParsed(awaiting[i].parsed)
  /\ UNCHANGED <<path, records, isValidation, BATCH_SIZE, ARRAY_DELIMITER, delivered,
                 ended, records_num, handler, batch, compiled, queries, outcome, sent>>
  /\ UNCHANGED downloadVars

\* complete, when the buffer is not empty: generateQueries has run on the
\* buffer and the callback is suspended at the await of src/index.js:56.
CompleteCompiled(c) ==
  /\ batch' = recordsBuffer
  /\ compiled' = c
  /\ awaiting' = Append(awaiting, Suspended("complete", recordsBuffer, c))
  /\ UNCHANGED promise

\* complete: the callback at the end of the source, up to its await on
\* generateQueries (or to its end when the buffer is empty).  In a csv run
\* handler tells how the source ended: by "complete" or by "error".
Complete ==
  /\ path = "csv"
  /\ ~paused /\ ~ended
  /\ delivered = Len(records)
  /\ ended' = TRUE
  /\ handler' = "complete"
  /\ IF Len(recordsBuffer) > 0
     THEN CompleteCompiled(generateQueries(recordsBuffer, Definition, ~isValidation,
                                           ARRAY_DELIMITER))
     ELSE /\ promise' = Settle(promise, Fulfilled)
          /\ UNCHANGED <<batch, compiled, awaiting>>
  /\ UNCHANGED <<path, records, isValidation, BATCH_SIZE, ARRAY_DELIMITER, delivered,
                 paused, recordsBuffer, batch_num, records_num, crashed, queries,
                 outcome, parsed, sent>>
  /\ UNCHANGED downloadVars

\* complete, from the await of generateQueries to the await of the executor.
CompleteSend ==
  /\ path = "csv"
  /\ \E i \in 1..Len(awaiting) :
       /\ awaiting[i].kind = "complete"
       /\ awaiting[i].stage = "generateQueries"
       /\ CallbackSends(i)
  /\ UNCHANGED <<path, records, isValidation, BATCH_SIZE, ARRAY_DELIMITER, delivered,
                 paused, ended, recordsBuffer, batch_num, records_num, handler, batch,
                 compiled, outcome, parsed, promise>>
  /\ UNCHANGED downloadVars

\* CompleteParsed with resolve() ahead of the test of the report.
CompleteParsedResolvesFirst(r) ==
  /\ parsed' = r
  /\ IF r.threw
     THEN /\ crashed' = TRUE
          /\ UNCHANGED promise
     ELSE /\ promise' = Settle(Settle(promise, Fulfilled),
                               IF r.report # {} THEN RejectedReport(r.report) ELSE Fulfilled)
          /\ UNCHANGED crashed

\* complete, from the return or throw r of responseParser to its end.
CompleteParsed(r) ==
  /\ parsed' = r
  /\ IF r.threw
     THEN /\ crashed' = TRUE
          /\ UNCHANGED promise
     ELSE /\ promise' = Settle(IF r.report # {}
                               THEN Settle(promise, RejectedReport(r.report))
                               ELSE promise,
                               Fulfilled)
          /\ UNCHANGED crashed

\* complete, from the await of responseParser to its end.
CompleteResume ==
  /\ path = "csv"
  /\ \E i \in 1..Len(awaiting) :
       /\ awaiting[i].kind = "complete"
       /\ awaiting[i].stage = "responseParser"
       /\ awaiting' = RemoveAt(awaiting, i)
       /\ CompleteParsed(awaiting[i].parsed)
  /\ UNCHANGED <<path, records, isValidation, BATCH_SIZE, ARRAY_DELIMITER, delivered,
                 paused, ended, recordsBuffer, batch_num, records_num, handler, batch,
                 compiled, queries, outcome, sent>>
  /\ UNCHANGED downloadVars

\* error: the parser reports a failure of the source, at any moment before
\* the end of the source, also while a callback is suspended at one of its
\* awaits; the callback has no test and the source delivers nothing after it.
SourceError ==
  /\ path = "csv"
  /\ ~ended
  /\ ended' = TRUE
  /\ handler' = "error"
  /\ promise' = Settle(promise, RejectedError(SourceReadError))
  /\ UNCHANGED <<path, records, isValidation, BATCH_SIZE, ARRAY_DELIMITER, delivered,
                 paused, recordsBuffer, batch_num, records_num, awaiting,
                 crashed, batch, compiled, queries, outcome, parsed, sent>>
  /\ UNCHANGED downloadVars

\* One iteration of the while loop: generateQueries has run on the slice and
\* jsonProcessing is suspended at the await of src/index.js:102.
JsonSliced(slice, c) ==
  /\ batch' = slice
  /\ compiled' = c
  /\ awaiting' = <<Suspended("json", slice, c)>>
  /\ handler' = "jsonAwait"
  /\ UNCHANGED promise

\* The while loop of jsonProcessing from its test on, with batch_num = num
\* and records_num = left: to the await on generateQueries, or the return.
JsonLoop(num, left) ==
  /\ batch_num' = num
  /\ records_num' = left
  /\ IF left > 0
     THEN JsonSliced(Slice(records, num * BATCH_SIZE, (num + 1) * BATCH_SIZE),
                     generateQueries(Slice(records, num * BATCH_SIZE, (num + 1) * BATCH_SIZE),
                                     Definition, ~isValidation, ARRAY_DELIMITER))
     ELSE /\ promise' = Fulfilled
          /\ handler' = "done"
          /\ awaiting' = <<>>
          /\ UNCHANGED <<batch, compiled>>

\* jsonProcessing is called.
JsonStart ==
  /\ path = "json"
  /\ handler = "start"
  /\ JsonLoop(0, Len(records))
  /\ UNCHANGED <<path, records, isValidation, BATCH_SIZE, ARRAY_DELIMITER, delivered,
                 paused, ended, recordsBuffer, crashed, queries, outcome, parsed, sent>>
  /\ UNCHANGED downloadVars

\* jsonProcessing, from the await of generateQueries to the await of the
\* executor: the error of generateQueries is thrown to the caller, or
\* responseParser is called and suspends.
JsonSend ==
  /\ path = "json"
  /\ handler = "jsonAwait"
  /\ awaiting[1].stage = "generateQueries"
  /\ IF awaiting[1].compiled.threw
     THEN /\ promise' = RejectedError(awaiting[1].compiled.error)
          /\ handler' = "done"
          /\ awaiting' = <<>>
          /\ UNCHANGED <<queries, sent>>
     ELSE /\ awaiting' = [awaiting EXCEPT ![1] = Called(@, batch_num)]
          /\ sent' = Append(sent, Shipment(batch_num, awaiting[1].batch))
          /\ queries' = awaiting[1].queries
          /\ UNCHANGED <<promise, handler>>
  /\ UNCHANGED <<path, records, isValidation, BATCH_SIZE, ARRAY_DELIMITER, delivered,
                 paused, ended, recordsBuffer, batch_num, records_num, crashed, batch,
                 compiled, outcome, parsed>>
  /\ UNCHANGED downloadVars

\* jsonProcessing, from the return or throw r of responseParser on.
JsonParsed(r) ==
  /\ parsed' = r
  /\ IF r.threw
     THEN /\ promise' = RejectedError(ParserThrow)
          /\ handler' = "done"
          /\ awaiting' = <<>>
          /\ UNCHANGED <<batch_num, records_num, batch, compiled>>
     ELSE IF r.report # {}
     THEN /\ promise' = RejectedError(NewErrorOfObject(r.report))
          /\ handler' = "done"
          /\ awaiting' = <<>>
          /\ UNCHANGED <<batch_num, records_num, batch, compiled>>
     ELSE JsonLoop(batch_num + 1, records_num - BATCH_SIZE)

\* jsonProcessing, from the await of responseParser on.
JsonResume ==
  /\ path = "json"
  /\ handler = "jsonAwait"
  /\ awaiting[1].stage = "responseParser"
  /\ JsonParsed(awaiting[1].parsed)
  /\ UNCHANGED <<path, records, isValidation, BATCH_SIZE, ARRAY_DELIMITER, delivered,
                 paused, ended, recordsBuffer, crashed, queries, outcome, sent>>
  /\ UNCHANGED downloadVars

Init == InitRun

Next ==
  \/ Step
  \/ StepSend
  \/ StepResume
  \/ Complete
  \/ CompleteSend
  \/ CompleteResume
  \/ SourceError
  \/ JsonStart
  \/ JsonSend
  \/ JsonResume
  \/ ParserRespond

Spec == Init /\ [][Next]_vars

(***************************************************************************)
(* A download: bulkDownload against a server that pages through the        *)
(* records it holds.                                                       *)
(***************************************************************************)
\* The records the server may hold.
ExportRecords ==
  { <<Field(<<"a">>, Str(<<"x">>)), Field(<<"l">>, ListOf(<<<<"p">>, <<"q">>>>))>>,
    <<Field(<<"a">>, Null), Field(<<"l">>, ListOf(<<>>))>>,
    <<Field(<<"a">>, Num(<<"5">>))>>,
    <<Field(<<"a">>, Str(<<"y">>)), Field(<<"l">>, ListOf(<<<<"p", "|", "q">>>>))>>,
    <<Field(<<"a">>, Str(<<"z">>)), Field(<<"l">>, ListOf(<<<<"p", QT, "q">>>>))>> }

MaxStored == 3

StoredLists == UNION {[1..n -> ExportRecords] : n \in 0..MaxStored}

MaxPageSize == 2

FieldDelimiters == {<<",">>, <<";", ";">>}

RecordDelimiters == {<<NL>>}

AttributeLists == {<<<<"a">>>>, <<<<"a">>, <<"l">>>>, <<<<"a">>, ToStringName>>}

ModelNames == {<<"m">>, <<"M">>}

\* The header row passed by the caller.
HeaderOf(attrs) == Join(attrs, <<",">>)

\* bulkDownload is called.
InitDownload ==
  /\ path = "download"
  /\ records = <<>>
  /\ isValidation = FALSE
  /\ BATCH_SIZE \in 1..MaxPageSize
  /\ ARRAY_DELIMITER \in ArrayDelimiters
  /\ batch_num = 0
  /\ records_num = 0
  /\ InitRest
  /\ model_name \in ModelNames
  /\ attributes \in AttributeLists
  /\ FIELD_DELIMITER \in FieldDelimiters
  /\ RECORD_DELIMITER \in RecordDelimiters
  /\ stored \in StoredLists
  /\ total_records = 0
  /\ writableStream = <<>>
  /\ batch_step = [first |-> 0, after |-> <<>>]
  /\ hasNextPage = FALSE
  /\ nodes = <<>>
  /\ appended = 0
  /\ requested = <<>>

\* The cursor of the record at position i.
CursorOf(i) == <<"c">> \o NumToText(i)

\* The position a continuation token stands for; none: the start.
PositionOf(after) ==
  IF after = <<>> THEN 0 ELSE MinOrZero({i \in 1..Len(stored) : CursorOf(i) = after})

\* The page of `first` records after position from: the records under the
\* field the query names, and pageInfo.
PageFrom(from, first) ==
  [field |-> QueriedNodesField(model_name),
   records |-> Slice(stored, from, from + first),
   hasNextPage |-> from + first < Len(stored),
   endCursor |-> IF from < Len(stored)
                 THEN CursorOf(IF from + first < Len(stored) THEN from + first
                               ELSE Len(stored))
                 ELSE <<>>]

\* What the server answers to the page query with these pagination arguments.
ServerPage(step) == PageFrom(PositionOf(step.after), step.first)

\* The error of an executor that rejects.
TransportError == [name |-> "TransportError", key |-> <<>>]

\* The TypeError of iterating nodes when data has no such key.
NotIterable == [name |-> "TypeError", key |-> <<>>]

\* The test of the while loop with these values of hasNextPage and
\* batch_step: the next page query is issued, or the function returns.
LoopTest(more, step) ==
  /\ hasNextPage' = more
  /\ batch_step' = step
  /\ IF more
     THEN /\ requested' = Append(requested, PaginationArgument(step))
          /\ handler' = "pageAwait"
          /\ UNCHANGED promise
     ELSE /\ handler' = "done"
          /\ promise' = Fulfilled
          /\ UNCHANGED requested

\* bulkDownload up to the await on the count query.
DownloadStart ==
  /\ path = "download"
  /\ handler = "start"
  /\ handler' = "countAwait"
  /\ UNCHANGED <<path, records, isValidation, BATCH_SIZE, ARRAY_DELIMITER, delivered,
                 paused, ended, recordsBuffer, batch_num, records_num, awaiting, crashed,
                 batch, compiled, queries, outcome, parsed, promise, sent>>
  /\ UNCHANGED downloadVars

\* From the answer to the count query to the first page query, or to the
\* return when the count is zero.
CountRespond ==
  /\ path = "download"
  /\ handler = "countAwait"
  /\ total_records' = Len(stored)
  /\ writableStream' = <<HeaderOf(attributes) \o RECORD_DELIMITER>>
  /\ LoopTest(Len(stored) > 0, [first |-> BATCH_SIZE, after |-> <<>>])
  /\ UNCHANGED <<path, records, isValidation, BATCH_SIZE, ARRAY_DELIMITER, delivered,
                 paused, ended, recordsBuffer, batch_num, records_num, awaiting, crashed,
                 batch, compiled, queries, outcome, parsed, sent>>
  /\ UNCHANGED <<model_name, attributes, FIELD_DELIMITER, RECORD_DELIMITER, stored,
                 nodes, appended>>

\* From the answer page of a page query to the first record of the for
\* await loop, or to the throw when nodes is undefined.
PageReceived(page) ==
  /\ hasNextPage' = page.hasNextPage
  /\ batch_step' = [first |-> batch_step.first, after |-> page.endCursor]
  /\ IF page.field = ReadNodesKey(model_name)
     THEN /\ nodes' = page.records
          /\ appended' = 0
          /\ handler' = "rows"
          /\ UNCHANGED promise
     ELSE /\ handler' = "done"
          /\ promise' = RejectedError(NotIterable)
          /\ UNCHANGED <<nodes, appended>>

PageRespond ==
  /\ path = "download"
  /\ handler = "pageAwait"
  /\ PageReceived(ServerPage(batch_step))
  /\ UNCHANGED <<path, records, isValidation, BATCH_SIZE, ARRAY_DELIMITER, delivered,
                 paused, ended, recordsBuffer, batch_num, records_num, awaiting, crashed,
                 batch, compiled, queries, outcome, parsed, sent>>
  /\ UNCHANGED <<model_name, attributes, FIELD_DELIMITER, RECORD_DELIMITER, stored,
                 total_records, writableStream, requested>>

\* One iteration of `for await (record of nodes)`.
WriteRow ==
  /\ path = "download"
  /\ handler = "rows"
  /\ appended < Len(nodes)
  /\ writableStream' =
       Append(writableStream,
              RowText(nodes[appended + 1], attributes, FIELD_DELIMITER, ARRAY_DELIMITER)
                \o RECORD_DELIMITER)
  /\ appended' = appended + 1
  /\ UNCHANGED <<path, records, isValidation, BATCH_SIZE, ARRAY_DELIMITER, delivered,
                 paused, ended, recordsBuffer, batch_num, records_num, handler, awaiting,
                 crashed, batch, compiled, queries, outcome, parsed, promise, sent>>
  /\ UNCHANGED <<model_name, attributes, FIELD_DELIMITER, RECORD_DELIMITER, stored,
                 total_records, batch_step, hasNextPage, nodes, requested>>

\* The for await loop leaves the body of the while loop without having
\* iterated over every record of nodes.
RowsDoneEarly == TRUE

\* The for await loop has iterated over every record of nodes.
RowsDone == appended = Len(nodes)

\* The end of the for await loop, and the test of the while loop after it.
NextPage ==
  /\ path = "download"
  /\ handler = "rows"
  /\ RowsDone
  /\ LoopTest(hasNextPage, batch_step)
  /\ UNCHANGED <<path, records, isValidation, BATCH_SIZE, ARRAY_DELIMITER, delivered,
                 paused, ended, recordsBuffer, batch_num, records_num, awaiting, crashed,
                 batch, compiled, queries, outcome, parsed, sent>>
  /\ UNCHANGED <<model_name, attributes, FIELD_DELIMITER, RECORD_DELIMITER, stored,
                 total_records, writableStream, nodes, appended>>

\* execute_graphql rejects the count query or a page query: the catch
\* block rethrows.
ExecutorRejects ==
  /\ path = "download"
  /\ handler \in {"countAwait", "pageAwait"}
  /\ handler' = "done"
  /\ promise' = RejectedError(TransportError)
  /\ UNCHANGED <<path, records, isValidation, BATCH_SIZE, ARRAY_DELIMITER, delivered,
                 paused, ended, recordsBuffer, batch_num, records_num, awaiting, crashed,
                 batch, compiled, queries, outcome, parsed, sent>>
  /\ UNCHANGED downloadVars

NextDownload ==
  \/ DownloadStart
  \/ CountRespond
  \/ PageRespond
  \/ WriteRow
  \/ NextPage
  \/ ExecutorRejects

SpecDownload == InitDownload /\ [][NextDownload]_vars

(***************************************************************************)
(* Properties.                                                             *)
(***************************************************************************)
\* A run in which some batch came back with a non-empty report: csvProcessing
\* called reject(result), jsonProcessing threw new Error(result).
ReportFailed ==
  /\ promise.state = "rejected"
  /\ \/ promise.kind = "report"
     \/ promise.error = NewErrorOfObject({})

\* C1 (as claimed): once a batch's report is non-empty the run is aborted:
\* nothing is in flight any more, and on the streaming path the parser is
\* not resumed.
C1_AbortOnFailure ==
  ReportFailed =>
    /\ awaiting = <<>>
    /\ handler # "jsonAwait"
    /\ (path = "csv" => paused \/ ended)

\* C2: in csvProcessing at most one callback is suspended at an await, so at
\* most one batch is being compiled, sent or answered; the parser is paused
\* for as long as a step callback is suspended, from the compilation of its
\* batch to the return of responseParser to it; and the complete callback is
\* suspended only after the end of the source.
C2_OneBatchInFlight ==
  path = "csv" =>
    /\ Len(awaiting) <= 1
    /\ \A i \in 1..Len(awaiting) : awaiting[i].kind = "step" => paused
    /\ \A i \in 1..Len(awaiting) : awaiting[i].kind = "complete" => ended

\* The second batch of a run is compiled and not yet sent, the parser is
\* paused and rows are left in the source.
C2_Witness ==
  /\ path = "csv"
  /\ Len(awaiting) = 1
  /\ awaiting[1].kind = "step"
  /\ awaiting[1].stage = "generateQueries"
  /\ ~awaiting[1].compiled.threw
  /\ Len(sent) = 1
  /\ paused
  /\ ~ended
  /\ delivered < Len(records)

\* ceil(n / d)
CeilDiv(n, d) == (n + d - 1) \div d

\* C3 (as claimed): a jsonProcessing run that resolves has compiled and executed exactly
\* ceil(L / B) batches, in order, batch i holding the records i*B+1 .. (i+1)*B
\* of the list; and every entry responseParser reports for batch i sits
\* under the ordinal i*B + j + 1 of the record at local index j.
C3_BatchesAndOrdinals ==
  path = "json" =>
    /\ promise.state = "resolved" =>
         /\ Len(sent) = CeilDiv(Len(records), BATCH_SIZE)
         /\ \A i \in 1..Len(sent) :
              /\ sent[i].batch_num = i - 1
              /\ sent[i].batch = [j \in 1..(IF i * BATCH_SIZE <= Len(records)
                                            THEN BATCH_SIZE
                                            ELSE Len(records) - (i - 1) * BATCH_SIZE) |->
                                    records[(i - 1) * BATCH_SIZE + j]]
    /\ \A e \in parsed.report :
         /\ e.num - batch_num * BATCH_SIZE \in 1..Len(batch)
         /\ records[e.num] = batch[e.num - batch_num * BATCH_SIZE]
         /\ e.hasSubquery => e.num - batch_num * BATCH_SIZE = e.errors.line - 1
         /\ ~e.hasSubquery =>
              outcome.response.data[e.num - batch_num * BATCH_SIZE]
                = <<AliasText(e.num - batch_num * BATCH_SIZE), "false">>

\* C4 (as claimed): an error thrown by generateQueries or by responseParser
\* terminates the run: jsonProcessing rejects with it, and once nothing of
\* csvProcessing can run any more its promise is rejected.
C4_ErrorsTerminate ==
  /\ (path = "json" /\ handler = "done" /\ (compiled.threw \/ parsed.threw))
       => promise.state = "rejected"
  /\ (path = "csv" /\ crashed /\ awaiting = <<>> /\ (paused \/ ended))
       => promise.state = "rejected"

\* The field names generateQueries has a type for: the attributes, and
\* add<Assoc> for the associations whose key is held by this model.
KnownFields ==
  DOMAIN Definition.attributes
    \cup {AddAssocName(Definition.associations[i].name) :
            i \in {n \in 1..Len(Definition.associations) :
                     \/ ~IsFalsy(Definition.associations[n].sourceKey)
                     \/ Definition.associations[n].keysIn = Definition.model}}

\* The positions <<record, field>> of a batch whose field name is unknown.
UnknownAt(recs) ==
  UNION {{<<i, j>> : j \in {n \in 1..Len(recs[i]) : recs[i][n][1] \notin KnownFields}} :
         i \in 1..Len(recs)}

\* Position p is visited before position q by the loops of generateQueries.
Before(p, q) == p[1] < q[1] \/ (p[1] = q[1] /\ p[2] < q[2])

FirstUnknown(recs) ==
  CHOOSE p \in UnknownAt(recs) : \A q \in UnknownAt(recs) : p = q \/ Before(p, q)

\* The conversion of the value of some known field visited before p throws.
ValueThrowsBefore(recs, p) ==
  \E i \in 1..Len(recs) : \E j \in 1..Len(recs[i]) :
    /\ Before(<<i, j>>, p)
    /\ recs[i][j][1] \in KnownFields
    /\ FieldArgument(Definition, BuildAddAssociations(Definition, 1), recs[i][j][1],
                     recs[i][j][2], ARRAY_DELIMITER).threw

\* C5 (as claimed): generateQueries throws an error naming the field for
\* every batch holding a field name it has no type for, and no such batch
\* reaches the executor.
C5_UnknownFieldNamed ==
  /\ \A i \in 1..Len(sent) : UnknownAt(sent[i].batch) = {}
  /\ UnknownAt(batch) # {} =>
       /\ compiled.threw
       /\ compiled.error.name = "NoSuchField"
       /\ \E p \in UnknownAt(batch) : compiled.error.key = batch[p[1]][p[2]][1]

\* The batch has a field named like a property of Object.prototype.
HasInheritedName(recs) ==
  \E i \in 1..Len(recs) : \E j \in 1..Len(recs[i]) : recs[i][j][1] \in ObjectPrototypeNames

\* C5, for batches without a field named like a property of
\* Object.prototype: generateQueries throws for every batch holding a field
\* name it has no type for, and no such batch reaches the executor; the error
\* names the first such field unless the conversion of the value of a field
\* visited before it throws first.
C5_UnknownFieldThrows ==
  /\ \A i \in 1..Len(sent) :
       ~HasInheritedName(sent[i].batch) => UnknownAt(sent[i].batch) = {}
  /\ (UnknownAt(batch) # {} /\ ~HasInheritedName(batch)) =>
       /\ compiled.threw
       /\ ~ValueThrowsBefore(batch, FirstUnknown(batch)) =>
            compiled.error =
              [name |-> "NoSuchField",
               key |-> batch[FirstUnknown(batch)[1]][FirstUnknown(batch)[2]][1]]

C5_Witness ==
  /\ Len(batch) = 2
  /\ UnknownAt(batch) = {<<2, 1>>}
  /\ compiled.threw
  /\ compiled.error = [name |-> "NoSuchField", key |-> <<"x">>]
  /\ sent = <<>>

\* C6 (as claimed): a run in which a batch came back with a non-empty report
\* is rejected with a report as the payload, on the streaming and on the
\* in-memory path.
C6_ReportIsPayload ==
  (path \in {"csv", "json"} /\ ~parsed.threw /\ parsed.report # {}) =>
    /\ promise.state = "rejected"
    /\ promise.kind = "report"
    /\ promise.report # {}
    /\ path = "json" => promise.report = parsed.report

\* The lines of the compiled document.
DocumentLines == Split(queries, <<NL>>)

\* C7 (as claimed): the document compiled for a batch of N records has
\* exactly N + 2 lines: the keyword line, the block of record k with its
\* alias n{k} on line k + 1, and the closing brace.
C7_OneLinePerRecord ==
  (path = "pure" /\ handler = "compiled") =>
    /\ Len(DocumentLines) = Len(records) + 2
    /\ DocumentLines[1] = IF isValidation THEN <<"{">>
                          ELSE <<"m", "u", "t", "a", "t", "i", "o", "n", "{">>
    /\ \A k \in 1..Len(records) :
         StartsWith(DocumentLines[k + 1], AliasText(k) \o <<":", SP>>)
    /\ DocumentLines[Len(DocumentLines)] = <<"}">>

\* The raw value is one of the texts "", NULL, "NULL".
IsSentinelField(f) ==
  /\ f[2].k = "str"
  /\ f[2].v \in {<<>>, TextNULL, <<QT>> \o TextNULL \o <<QT>>}

KeepsValue(f) == ~IsSentinelField(f)

\* The batch without the fields holding a sentinel.
WithoutSentinels(recs) == [i \in 1..Len(recs) |-> SelectSeq(recs[i], KeepsValue)]

\* The text of the document from alias n{i} up to the next alias, or up to
\* the closing brace for the last record.
BlockStart(q, i) == IndexOf(q, <<NL>> \o AliasText(i) \o <<":", SP>>)

BlockOf(q, i, n) ==
  SubSeq(q, BlockStart(q, i) + 1,
         (IF i < n THEN BlockStart(q, i + 1) ELSE Len(q) - 1) - 1)

\* C8: in mutate and in validate mode, the document compiled for a batch is
\* the document compiled for the batch without its fields whose raw value is
\* "", NULL or "NULL", and the block of a record has no argument named by
\* such a field.
C8_SentinelsElided ==
  (path = "pure" /\ handler = "compiled") =>
    /\ queries = generateQueries(WithoutSentinels(records), Definition, ~isValidation,
                                 ARRAY_DELIMITER).query
    /\ \A i \in 1..Len(records) : \A j \in 1..Len(records[i]) :
         IsSentinelField(records[i][j]) =>
           ~Includes(BlockOf(queries, i, Len(records)), records[i][j][1] \o <<":">>)

C8_Witness ==
  /\ path = "pure"
  /\ handler = "compiled"
  /\ \E i \in 1..Len(records) :
       /\ Len(records[i]) = 2
       /\ records[i][1][2].v = <<QT>> \o TextNULL \o <<QT>>
       /\ records[i][2][2].v = <<>>
  /\ \E i \in 1..Len(records) :
       /\ Len(records[i]) = 2
       /\ records[i][1][2].v = TextNULL
       /\ ~IsSentinelField(records[i][2])

\* The associations whose key is a field of the model being compiled, as
\* pairs <<key, creation alias>>.
OwnedKeys ==
  {<<Definition.associations[i].targetKey, AddAssocName(Definition.associations[i].name)>> :
     i \in {n \in 1..Len(Definition.associations) :
              Definition.associations[n].keysIn = Definition.model}}

\* C9 (as claimed): a field named by the key of an association the model
\* owns is emitted under the creation alias add<Relation>, not under the raw
\* field name, with the value serialized by the declared type of the field.
C9_KeyUnderAlias ==
  (path = "pure" /\ handler = "compiled") =>
    \A i \in 1..Len(records) : \A j \in 1..Len(records[i]) : \A o \in OwnedKeys :
      (records[i][j][1] = o[1] /\ ~IsSentinelField(records[i][j])) =>
        /\ Includes(BlockOf(queries, i, Len(records)),
                    DropLast(ScalarArgument(o[2], records[i][j][2],
                                            Definition.attributes[o[1]]).text))
        /\ ~Includes(BlockOf(queries, i, Len(records)), <<"(">> \o o[1] \o <<":">>)

\* The aliases n{k} of the batch whose flag in data is false and whose
\* arguments, reconstructed from the line that carries the alias, deep-equal
\* the input of some error.
ArgsMatchSomeInput(args) ==
  /\ ~args.threw
  /\ args.proto = "Object"
  /\ \E e \in 1..Len(outcome.response.errors) :
       /\ ErrorInput(outcome.response.errors[e]).defined
       /\ ErrorInput(outcome.response.errors[e]).input = args.obj

LineMatchesAlias(split_res, k) ==
  split_res[1] = AliasText(k) /\ ArgsMatchSomeInput(ReconstructArgs(split_res))

SomeLineMatches(subqueries, k) ==
  \E q \in 1..Len(subqueries) : LineMatchesAlias(Split(subqueries[q], <<":", SP>>), k)

FlaggedAndMatchedIn(subqueries) ==
  {k \in 1..Len(records) :
     DataIsFalse(outcome.response.data, AliasText(k)) /\ SomeLineMatches(subqueries, k)}

FlaggedAndMatched == FlaggedAndMatchedIn(Subqueries(queries))

\* C10 (as claimed): for a response with data and errors, the report of
\* responseParser has an entry under batch_size * batch_num + k exactly for
\* the aliases n{k} whose flag is false and whose reconstructed arguments
\* deep-equal the input of some error.
C10_EntriesAtOrdinals ==
  (path = "parse" /\ handler = "parsed" /\ outcome.response.hasErrors
     /\ outcome.response.hasData) =>
    {e.num : e \in parsed.report} = {BATCH_SIZE * batch_num + k : k \in FlaggedAndMatched}

\* C11 (as claimed): in the flag strategy the error recorded in an entry is
\* the first error of response.errors whose input deep-equals the
\* reconstructed arguments, that is, no error ahead of it has the same input.
C11_FirstMatchRecorded ==
  (path = "parse" /\ handler = "parsed" /\ outcome.response.hasErrors
     /\ outcome.response.hasData) =>
    \A e \in parsed.report : \A i \in 1..Len(outcome.response.errors) :
      ErrorInput(outcome.response.errors[i]).input = ErrorInput(e.errors).input =>
        \E j \in 1..i : outcome.response.errors[j] = e.errors

\* C12 (as claimed): in the line strategy every error with a line l in
\* 2..N+1 has an entry under batch_size * batch_num + (l - 1) whose subquery
\* is the block of record l - 1.
C12_LineToRecord ==
  (path = "parse" /\ handler = "parsed" /\ outcome.response.hasErrors
     /\ ~outcome.response.hasData) =>
    \A i \in 1..Len(outcome.response.errors) :
      outcome.response.errors[i].line \in 2..(Len(records) + 1) =>
        \E e \in parsed.report :
          /\ e.num = BATCH_SIZE * batch_num + (outcome.response.errors[i].line - 1)
          /\ e.hasSubquery
          /\ e.subquery = BlockOf(queries, outcome.response.errors[i].line - 1,
                                  Len(records))

\* A callback of the run takes the answer of the executor, and the answer is
\* a response without errors.
\* The answer o of the executor has no errors.
WithoutErrors(o) == o.hasResponse /\ ~o.response.hasErrors

\* In this step responseParser goes on, for the suspended function at
\* position i, with an answer that has no errors.
RespondsWithoutErrors(i) ==
  /\ awaiting[i].stage = "execute_graphql"
  /\ Len(awaiting') = Len(awaiting)
  /\ awaiting'[i].stage = "responseParser"
  /\ WithoutErrors(awaiting'[i].outcome)

\* In this step the suspended function at position i goes on with what
\* responseParser returned for an answer that has no errors.
TakesReportWithoutErrors(i) ==
  /\ awaiting[i].stage = "responseParser"
  /\ WithoutErrors(awaiting[i].outcome)
  /\ \/ (path = "csv" /\ awaiting' = RemoveAt(awaiting, i))
     \/ (path = "json" /\ awaiting' # awaiting)

\* What the run does with the empty report.
GoesOn(kind) ==
  /\ parsed' = [threw |-> FALSE, report |-> {}]
  /\ (kind = "json") =>
       /\ batch_num' = batch_num + 1
       /\ records_num' = records_num - BATCH_SIZE
       /\ \/ /\ records_num' > 0
             /\ handler' = "jsonAwait"
             /\ batch' = Slice(records, batch_num' * BATCH_SIZE, (batch_num' + 1) * BATCH_SIZE)
             /\ batch' # <<>>
             /\ awaiting' = <<Suspended("json", batch', compiled')>>
          \/ /\ records_num' <= 0
             /\ handler' = "done"
             /\ promise'.state = "resolved"
  /\ (kind = "step") =>
       /\ batch_num' = batch_num + 1
       /\ recordsBuffer' = <<>>
       /\ ~paused'
       /\ promise' = promise
  /\ (kind = "complete") => (promise' = Settle(promise, Fulfilled))

\* C13: when the response of the executor has no errors, with or without
\* data and for every batch size and batch number, responseParser returns
\* the empty report and the run goes on with it: jsonProcessing compiles the
\* next slice or returns, the step callback clears the buffer, increments
\* batch_num and resumes the parser, the complete callback calls resolve.
C13_NoErrorsNoEntries ==
  [][(path = "csv" \/ path = "json") =>
       (\A i \in 1..Len(awaiting) :
          /\ RespondsWithoutErrors(i) =>
               awaiting'[i].parsed = [threw |-> FALSE, report |-> {}]
          /\ TakesReportWithoutErrors(i) => GoesOn(awaiting[i].kind))]_vars

\* A step callback of csvProcessing has taken the empty report of the
\* second batch, whose answer had data and no errors, and has resumed the
\* parser.
C13_Witness ==
  /\ path = "csv"
  /\ WithoutErrors(outcome)
  /\ outcome.response.hasData
  /\ BATCH_SIZE = 1
  /\ batch_num = 2
  /\ Len(sent) = 2
  /\ awaiting = <<>>
  /\ recordsBuffer = <<>>
  /\ ~paused /\ ~ended /\ ~crashed
  /\ parsed = [threw |-> FALSE, report |-> {}]
  /\ promise.state = "pending"

\* C18: in csvProcessing the k-th batch handed on carries batch ordinal
\* k - 1 and holds the records (k-1)*B+1 .. k*B of the source, in order; every
\* batch but the last has BATCH_SIZE records and an undersized batch is sent
\* only at the end of the source; the rows delivered and not yet sent are the
\* buffer; and when the source is exhausted (complete was called, the source
\* did not fail), the last compilation did not throw and its batch was
\* handed on, ceil(L / B) batches were sent, so a non-empty buffer went out as
\* exactly one final batch and an empty one as none.  A batch that is
\* compiled and not yet handed on is the slice that follows the batches sent.
C18_BatchesPartitionSource ==
  path = "csv" =>
    /\ \A k \in 1..Len(sent) :
         /\ sent[k].batch_num = k - 1
         /\ sent[k].batch = Slice(records, (k - 1) * BATCH_SIZE, k * BATCH_SIZE)
         /\ k < Len(sent) => Len(sent[k].batch) = BATCH_SIZE
         /\ Len(sent[k].batch) = BATCH_SIZE
              \/ (handler = "complete" /\ Len(sent[k].batch) \in 1..(BATCH_SIZE - 1))
    /\ \A i \in 1..Len(awaiting) :
         IF awaiting[i].stage = "generateQueries"
         THEN awaiting[i].batch
                = Slice(records, Len(sent) * BATCH_SIZE, (Len(sent) + 1) * BATCH_SIZE)
         ELSE /\ awaiting[i].batch_num = Len(sent) - 1
              /\ awaiting[i].batch = sent[Len(sent)].batch
    /\ (awaiting = <<>> /\ ~crashed /\ ~ended) =>
         recordsBuffer = SubSeq(records, Len(sent) * BATCH_SIZE + 1, delivered)
    /\ (handler = "complete" /\ ~compiled.threw
          /\ \A i \in 1..Len(awaiting) : awaiting[i].stage # "generateQueries") =>
         /\ delivered = Len(records)
         /\ Len(sent) = CeilDiv(Len(records), BATCH_SIZE)

C18_Witness ==
  /\ path = "csv"
  /\ BATCH_SIZE = 2
  /\ Len(records) = 3
  /\ ended
  /\ awaiting = <<>>
  /\ Len(sent) = 2
  /\ Len(sent[2].batch) = 1
  /\ promise.state = "resolved"

\* C14 (as claimed): against a server whose hasNextPage is true for every
\* page but the last, a download that no transport error interrupts never
\* issues more than ceil(total / pageSize) page queries, and it returns
\* having issued exactly that many and appended the header and exactly total
\* rows; when the count is zero no page query is issued.
C14_PagesAndRows ==
  path = "download" =>
    /\ Len(requested) <= CeilDiv(Len(stored), BATCH_SIZE)
    /\ (handler = "done" /\ promise.error # TransportError) =>
         /\ promise.state = "resolved"
         /\ total_records = Len(stored)
         /\ Len(requested) = CeilDiv(total_records, BATCH_SIZE)
         /\ Len(writableStream) = 1 + total_records
         /\ total_records = 0 => requested = <<>>

\* C15: while the query for page k + 1 is outstanding the sink holds the
\* header and every row of the pages 1..k; the first page query carries
\* `first` alone, and every later one carries as `after` the endCursor the
\* server returned with the page before it.
C15_PagesInSequence ==
  path = "download" =>
    /\ handler = "pageAwait" =>
         /\ Len(writableStream) = 1 + (Len(requested) - 1) * BATCH_SIZE
         /\ appended = Len(nodes)
    /\ \A k \in 1..Len(requested) :
         requested[k] =
           IF k = 1
           THEN <<"f", "i", "r", "s", "t", ":">> \o NumToText(BATCH_SIZE)
           ELSE <<"f", "i", "r", "s", "t", ":">> \o NumToText(BATCH_SIZE)
                  \o <<",", SP, "a", "f", "t", "e", "r", ":", QT>>
                  \o PageFrom((k - 2) * BATCH_SIZE, BATCH_SIZE).endCursor \o <<QT>>
    /\ \A k \in 2..Len(requested) :
         PageFrom((k - 2) * BATCH_SIZE, BATCH_SIZE).endCursor # <<>>

C15_Witness ==
  /\ path = "download"
  /\ handler = "pageAwait"
  /\ BATCH_SIZE = 1
  /\ Len(requested) = 3
  /\ requested[3] = <<"f", "i", "r", "s", "t", ":", "1", ",", SP,
                      "a", "f", "t", "e", "r", ":", QT, "c", "2", QT>>
  /\ Len(writableStream) = 3

\* The attribute of a record under a name, undefined when the record holds
\* no attribute of that name.
OwnAttributeOf(record, attr) ==
  IF \E i \in 1..Len(record) : record[i][1] = attr
  THEN record[CHOOSE i \in 1..Len(record) : record[i][1] = attr][2]
  ELSE NoAttribute

\* The quoted token of one attribute.
TokenOf(value) ==
  IF value.k \in {"null", "undefined"} \/ (value.k = "list" /\ value.v = <<>>)
  THEN <<QT>> \o TextNULL \o <<QT>>
  ELSE IF value.k = "list" THEN <<QT>> \o Join(value.v, ARRAY_DELIMITER) \o <<QT>>
  ELSE <<QT>> \o value.v \o <<QT>>

\* C16 (as claimed): every row appended to the sink is the quoted tokens of
\* the requested attributes joined by the field delimiter, with nothing of a
\* delimiter after the last token, followed by the record delimiter.
C16_RowsJoined ==
  path = "download" =>
    \A i \in 2..Len(writableStream) :
      writableStream[i] =
        Join([j \in 1..Len(attributes) |->
                TokenOf(OwnAttributeOf(stored[i - 1], attributes[j]))],
             FIELD_DELIMITER)
          \o RECORD_DELIMITER

\* What generateQueries makes of the token of a list, as the value of the
\* field l of type [String].
Recompiled(value) ==
  ListArgument(<<"l">>, Str(TokenOf(value)), T_ListString, ARRAY_DELIMITER)

\* C17 (as claimed): the token written for a non-empty list of an appended
\* row, compiled by generateQueries as a list field with the same array
\* delimiter, gives a bracketed list that decodes to the elements of the
\* list, in order.
C17_ListRoundTrip ==
  path = "download" =>
    \A i \in 2..Len(writableStream) :
      (/\ <<"l">> \in {attributes[j] : j \in 1..Len(attributes)}
       /\ AttributeOf(stored[i - 1], <<"l">>).k = "list"
       /\ AttributeOf(stored[i - 1], <<"l">>).v # <<>>) =>
        /\ ~Recompiled(AttributeOf(stored[i - 1], <<"l">>)).threw
        /\ JSONparse(SubSeq(Recompiled(AttributeOf(stored[i - 1], <<"l">>)).text, 3,
                            Len(Recompiled(AttributeOf(stored[i - 1], <<"l">>)).text) - 1)).canon
             = <<"[">>
                 \o Join([e \in 1..Len(AttributeOf(stored[i - 1], <<"l">>).v) |->
                            JSONstringifyString(AttributeOf(stored[i - 1], <<"l">>).v[e])],
                         <<",">>)
                 \o <<"]">>

\* The text of the value generateQueries emits for field j of a record,
\* between `key:` and the comma.
EmittedValue(record, j) ==
  SubSeq(FieldArgument(Definition, BuildAddAssociations(Definition, 1), record[j][1],
                       record[j][2], ARRAY_DELIMITER).text,
         Len(record[j][1]) + 2,
         Len(FieldArgument(Definition, BuildAddAssociations(Definition, 1), record[j][1],
                           record[j][2], ARRAY_DELIMITER).text) - 1)

\* The emitted argument names of a record with their typed values.
EmittedArguments(record) ==
  {<<record[j][1], JSONparse(EmittedValue(record, j)).canon>> :
     j \in {n \in 1..Len(record) : ~IsSentinelField(record[n])}}

\* C19 (as claimed): in validate mode, the arguments responseParser
\* reconstructs from the block of a record are the emitted argument names
\* with their typed values.
C19_ReparseRoundTrip ==
  (path = "pure" /\ handler = "compiled" /\ isValidation) =>
    \A i \in 1..Len(records) :
      /\ ~ReconstructArgs(Split(BlockOf(queries, i, Len(records)), <<":", SP>>)).threw
      /\ ReconstructArgs(Split(BlockOf(queries, i, Len(records)), <<":", SP>>)).obj
           = EmittedArguments(records[i])

\* C20 (as claimed): whenever the response carries errors, the report
\* responseParser returns is not empty.
C20_ErrorsReported ==
  (path = "parse" /\ handler = "parsed" /\ outcome.response.hasErrors
     /\ outcome.response.errors # <<>>) =>
    parsed.report # {}

\* C20 (amended): a response with errors and no data gives a non-empty
\* report; a response with errors and data gives a non-empty report exactly
\* when some alias is flagged false and its reconstructed arguments
\* deep-equal the input of some error, and the empty report otherwise.
C20_ErrorsReportedWhenMatched ==
  (path = "parse" /\ handler = "parsed" /\ outcome.response.hasErrors
     /\ outcome.response.errors # <<>>) =>
    /\ ~outcome.response.hasData => parsed.report # {}
    /\ outcome.response.hasData => (parsed.report # {} <=> FlaggedAndMatched # {})

C20_Witness ==
  /\ path = "parse"
  /\ handler = "parsed"
  /\ outcome.response.hasErrors
  /\ outcome.response.hasData
  /\ Len(records) = 2
  /\ DataIsFalse(outcome.response.data, AliasText(1))
  /\ ~DataIsFalse(outcome.response.data, AliasText(2))
  /\ FlaggedAndMatched = {}
  /\ parsed.report = {}

\* responseParser returned its report to step or to complete in this step.
ReportReturned ==
  \E i \in 1..Len(awaiting) :
    /\ awaiting[i].stage = "responseParser"
    /\ awaiting' = RemoveAt(awaiting, i)
    /\ ~awaiting[i].parsed.threw
    /\ parsed' = awaiting[i].parsed

\* The promise of the run becomes resolved in this step.
ResolveTakesEffect == promise.state # "resolved" /\ promise'.state = "resolved"

\* C21: in csvProcessing, a step in which a batch's report comes back
\* non-empty leaves the promise rejected; a rejected promise stays rejected;
\* and the promise becomes resolved only when the source is exhausted, no
\* callback has thrown, no batch is awaiting its answer, and the batches
\* compiled and executed are the ceil(L / B) slices of the source, the final
\* undersized one included. So no resolve takes effect in a run in which
\* some report was non-empty or some batch was not executed.
C21_ResolveNeedsEveryBatch ==
  [][path = "csv" =>
       /\ (ReportReturned /\ parsed'.report # {}) => promise'.state = "rejected"
       /\ promise.state = "rejected" => promise'.state = "rejected"
       /\ ResolveTakesEffect =>
            /\ handler' = "complete" /\ delivered' = Len(records)
            /\ ~crashed' /\ awaiting' = <<>>
            /\ ~compiled'.threw /\ ~parsed'.threw /\ parsed'.report = {}
            /\ Len(sent') = CeilDiv(Len(records), BATCH_SIZE)
            /\ \A k \in 1..Len(sent') :
                 sent'[k].batch = Slice(records, (k - 1) * BATCH_SIZE, k * BATCH_SIZE)]_vars

C21_Witness ==
  /\ path = "csv"
  /\ BATCH_SIZE = 2
  /\ Len(records) = 3
  /\ Len(sent) = 2
  /\ Len(sent[2].batch) = 1
  /\ ended
  /\ parsed = [threw |-> FALSE, report |-> {}]
  /\ outcome.response.hasErrors
  /\ promise.state = "resolved"

\* What follows the closing parenthesis of a block.
BlockTail == IF isValidation THEN <<>> ELSE <<"{">> \o Definition.id \o <<"}">>

\* The text of block i between `alias: operation(` and `)` with its tail.
BlockArgs(q, i, n) ==
  SubSeq(BlockOf(q, i, n),
         Len(AliasText(i)) + 2 + Len(ApiName(Definition.model, ~isValidation)) + 2,
         Len(BlockOf(q, i, n)) - 1 - Len(BlockTail))

\* C22 (as claimed): every block of a compiled document is the alias, `: `,
\* the operation, an opening parenthesis, the arguments, a closing
\* parenthesis and the selection of the mode, also for a record without
\* fields and for a record whose fields are all elided; the arguments do not
\* end with a comma.
C22_BlocksParenthesised ==
  (path = "pure" /\ handler = "compiled") =>
    \A i \in 1..Len(records) :
      /\ BlockOf(queries, i, Len(records))
           = AliasText(i) \o <<":", SP>> \o ApiName(Definition.model, ~isValidation)
               \o <<"(">> \o BlockArgs(queries, i, Len(records)) \o <<")">> \o BlockTail
      /\ BlockArgs(queries, i, Len(records)) # <<>> =>
           BlockArgs(queries, i, Len(records))[Len(BlockArgs(queries, i, Len(records)))] # ","

\* The number of times the text p occurs in s.
Occurrences(s, p) == Len(Split(s, p)) - 1

\* C23 (as claimed): in a compiled document, a field whose raw value is
\* none of the texts "", NULL and "NULL", the native values 0 and false
\* included, is exactly one argument of the block of its record.
C23_OnlySentinelsOmitted ==
  (path = "pure" /\ handler = "compiled") =>
    \A i \in 1..Len(records) : \A j \in 1..Len(records[i]) :
      ~IsSentinelField(records[i][j]) =>
        Occurrences(BlockArgs(queries, i, Len(records)), records[i][j][1] \o <<":">>) = 1

=============================================================================
